---------------------------- MODULE Spec2Model ----------------------------
(***************************************************************************)
(* A model of the blackjack server's round engine (server/game.py), of the *)
(* server's session loop (server/server_main.py) and of the client's       *)
(* session loop (client/client_main.py).                                   *)
(*                                                                         *)
(* Spec        : the round engine alone, driven by arbitrary decisions in  *)
(*               every phase, over successive rounds on one deck.          *)
(* SessionSpec : server and client processes exchanging messages over the  *)
(*               two directions of one TCP connection.                     *)
(***************************************************************************)
EXTENDS Integers, Sequences, FiniteSets, TLC

(***************************************************************************)
(* Bounds of the exploration.                                              *)
(***************************************************************************)
\* rng.shuffle may produce any of the 52! orders; the orders explored are
\* Shuffle(0) .. Shuffle(NumShuffles - 1).
NumShuffles == 52

\* The client asks for 1..255 rounds; the sessions explored ask for
\* 1..MaxRounds.
MaxRounds == 2

(***************************************************************************)
(* server/game.py: result codes, cards, the deck.                          *)
(***************************************************************************)
RESULT_NOT_OVER == 0
RESULT_TIE == 1
RESULT_LOSS == 2
RESULT_WIN == 3

NumRanks == 13
NumSuits == 4
DeckSize == 52

Ranks == 1..NumRanks
Suits == 0..(NumSuits - 1)

\* Card(rank, suit)
Card(rank, suit) == [rank |-> rank, suit |-> suit]

\* Deck.reset, before the shuffle:
\* [Card(rank, suit) for suit in range(4) for rank in range(1, 14)]
Population ==
    [j \in 1..DeckSize |-> Card(((j - 1) % NumRanks) + 1, (j - 1) \div NumRanks)]

\* The explored orders.  53 is prime, so for an exponent e coprime to 52 the
\* map x |-> x^e mod 53 is a permutation of 1..52; an order lists the
\* population along such a permutation, starting at any offset.
Exponents == <<3, 5, 7, 9, 11, 15, 17, 19>>

RECURSIVE PowMod(_, _)
PowMod(x, e) == IF e = 0 THEN 1 ELSE (x * PowMod(x, e - 1)) % (DeckSize + 1)

ShuffleIds == 0..(NumShuffles - 1)

\* rng.shuffle(self.cards): the k-th explored order of the population.
Shuffle(k) ==
    LET e == Exponents[((k \div DeckSize) % Len(Exponents)) + 1]
        offset == k % DeckSize
    IN  [i \in 1..DeckSize |-> Population[PowMod(((i + offset) % DeckSize) + 1, e)]]

\* Deck.reset: a full, freshly permuted population.
reset(k) == Shuffle(k)

\* A variant of draw that returns the last card and leaves it in the deck.
draw_no_pop(cs, k) ==
    LET full == IF cs = <<>> THEN reset(k) ELSE cs
    IN  [card |-> full[Len(full)], cards |-> full]

\* A variant of draw that refills the deck when one card is left in it.
draw_early_reset(cs, k) ==
    LET full == IF Len(cs) <= 1 THEN reset(k) ELSE cs
    IN  [card |-> full[Len(full)], cards |-> SubSeq(full, 1, Len(full) - 1)]

\* Deck.draw: refill when empty, then pop the last card of the list.
\* k is the order the rng produces if the deck has to be reset.
draw(cs, k) ==
    LET full == IF cs = <<>> THEN reset(k) ELSE cs
    IN  [card |-> full[Len(full)], cards |-> SubSeq(full, 1, Len(full) - 1)]

(***************************************************************************)
(* server/game.py: hand values.                                            *)
(***************************************************************************)
card_value_for_hand(rank) ==
    IF rank = 1 THEN 1
    ELSE IF 2 <= rank /\ rank <= 10 THEN rank
    ELSE 10

RECURSIVE SumValues(_)
SumValues(hand) ==
    IF hand = <<>> THEN 0
    ELSE card_value_for_hand(Head(hand).rank) + SumValues(Tail(hand))

\* hand_value(hand) = <<best_total, is_soft>>
hand_value(hand) ==
    LET total == SumValues(hand)
        aces == Cardinality({i \in 1..Len(hand) : hand[i].rank = 1})
    IN  IF aces > 0 /\ total + 10 <= 21
        THEN <<total + 10, TRUE>>
        ELSE <<total, FALSE>>

(***************************************************************************)
(* server/game.py: BlackjackRound.  A round g is a record                  *)
(* [player, dealer, phase, cards]; cards is the deck the round borrows.    *)
(***************************************************************************)
Decisions == {"Hittt", "Stand"}

\* BlackjackRound.__init__(deck)
NewGame(cs) == [player |-> <<>>, dealer |-> <<>>, phase |-> "INIT", cards |-> cs]

\* A variant of start that deals alternately: player, dealer, player, dealer.
start_alternating(g, k) ==
    LET d1 == draw(g.cards, k)
        d2 == draw(d1.cards, k)
        d3 == draw(d2.cards, k)
        d4 == draw(d3.cards, k)
        pl == <<d1.card, d3.card>>
        de == <<d2.card, d4.card>>
    IN  [g |-> [player |-> pl, dealer |-> de, phase |-> "PLAYER", cards |-> d4.cards],
         ret |-> <<pl[1], pl[2], de[1]>>]

\* BlackjackRound.start: the round after it, and the list it returns.
start(g, k) ==
    LET d1 == draw(g.cards, k)
        d2 == draw(d1.cards, k)
        d3 == draw(d2.cards, k)
        d4 == draw(d3.cards, k)
        pl == <<d1.card, d2.card>>
        de == <<d3.card, d4.card>>
    IN  [g |-> [player |-> pl, dealer |-> de, phase |-> "PLAYER", cards |-> d4.cards],
         ret |-> <<pl[1], pl[2], de[1]>>]

\* BlackjackRound.player_hit
player_hit(g, k) ==
    LET d == draw(g.cards, k)
    IN  [g |-> [g EXCEPT !.player = Append(g.player, d.card), !.cards = d.cards],
         c |-> d.card]

\* BlackjackRound.dealer_draw
dealer_draw(g, k) ==
    LET d == draw(g.cards, k)
    IN  [g |-> [g EXCEPT !.dealer = Append(g.dealer, d.card), !.cards = d.cards],
         c |-> d.card]

\* A variant of _final_result that compares with >=, so equal totals win.
final_result_tie_wins(g) ==
    LET p_total == hand_value(g.player)[1]
        d_total == hand_value(g.dealer)[1]
    IN  IF p_total > 21 THEN RESULT_LOSS
        ELSE IF d_total > 21 THEN RESULT_WIN
        ELSE IF p_total >= d_total THEN RESULT_WIN
        ELSE RESULT_LOSS

\* BlackjackRound._final_result
final_result(g) ==
    LET p_total == hand_value(g.player)[1]
        d_total == hand_value(g.dealer)[1]
    IN  IF p_total > 21 THEN RESULT_LOSS
        ELSE IF d_total > 21 THEN RESULT_WIN
        ELSE IF p_total > d_total THEN RESULT_WIN
        ELSE IF p_total < d_total THEN RESULT_LOSS
        ELSE RESULT_TIE

\* A variant of the Hittt branch that forgets to end the round on a bust.
apply_hit_stays_in_play(g, k) ==
    LET h == player_hit(g, k)
        p_total == hand_value(h.g.player)[1]
    IN  IF p_total > 21
        THEN [g |-> h.g, out |-> << <<RESULT_LOSS, h.c>> >>]
        ELSE [g |-> h.g, out |-> << <<RESULT_NOT_OVER, h.c>> >>]

\* A variant of the Hittt branch that treats a total of 21 as a bust.
apply_hit_bust_at_21(g, k) ==
    LET h == player_hit(g, k)
        p_total == hand_value(h.g.player)[1]
    IN  IF p_total >= 21
        THEN [g |-> [h.g EXCEPT !.phase = "OVER"], out |-> << <<RESULT_LOSS, h.c>> >>]
        ELSE [g |-> h.g, out |-> << <<RESULT_NOT_OVER, h.c>> >>]

\* apply_decision, the branch `if decision == "Hittt"` of the PLAYER phase.
apply_hit(g, k) ==
    LET h == player_hit(g, k)
        p_total == hand_value(h.g.player)[1]
    IN  IF p_total > 21
        THEN [g |-> [h.g EXCEPT !.phase = "OVER"], out |-> << <<RESULT_LOSS, h.c>> >>]
        ELSE [g |-> h.g, out |-> << <<RESULT_NOT_OVER, h.c>> >>]

\* A variant of the DEALER block in which the dealer hits a soft 17.
apply_dealer_hits_soft17(g, out, k) ==
    IF hand_value(g.dealer)[1] >= 17 /\ hand_value(g.dealer) # <<17, TRUE>>
    THEN LET g2 == [g EXCEPT !.phase = "OVER"]
             last == g2.dealer[Len(g2.dealer)]
         IN  [g |-> g2, out |-> Append(out, <<final_result(g2), last>>)]
    ELSE LET dd == dealer_draw(g, k)
         IN  [g |-> dd.g, out |-> Append(out, <<RESULT_NOT_OVER, dd.c>>)]

\* A variant of the DEALER block in which a dealer below 17 draws no card.
apply_dealer_waits(g, out, k) ==
    IF hand_value(g.dealer)[1] >= 17
    THEN LET g2 == [g EXCEPT !.phase = "OVER"]
             last == g2.dealer[Len(g2.dealer)]
         IN  [g |-> g2, out |-> Append(out, <<final_result(g2), last>>)]
    ELSE [g |-> g, out |-> out]

\* apply_decision, the block `if self.phase == "DEALER"`, entered with the
\* events `out` produced so far in the same invocation.
apply_dealer(g, out, k) ==
    IF hand_value(g.dealer)[1] >= 17
    THEN LET g2 == [g EXCEPT !.phase = "OVER"]
             last == g2.dealer[Len(g2.dealer)]
         IN  [g |-> g2, out |-> Append(out, <<final_result(g2), last>>)]
    ELSE LET dd == dealer_draw(g, k)
         IN  [g |-> dd.g, out |-> Append(out, <<RESULT_NOT_OVER, dd.c>>)]

\* A variant of the OVER tail that recomputes the outcome from the totals
\* alone, without the bust checks.
apply_over_compare_only(g, out) ==
    LET last == IF g.dealer # <<>> THEN g.dealer[Len(g.dealer)]
                ELSE g.player[Len(g.player)]
        p_total == hand_value(g.player)[1]
        d_total == hand_value(g.dealer)[1]
        res == IF p_total > d_total THEN RESULT_WIN
               ELSE IF p_total < d_total THEN RESULT_LOSS
               ELSE RESULT_TIE
    IN  [g |-> g, out |-> Append(out, <<res, last>>)]

\* apply_decision, the tail `If OVER already`.
apply_over(g, out) ==
    LET last == IF g.dealer # <<>> THEN g.dealer[Len(g.dealer)]
                ELSE g.player[Len(g.player)]
    IN  [g |-> g, out |-> Append(out, <<final_result(g), last>>)]

\* A variant of apply_decision that returns right after the reveal on Stand,
\* leaving the dealer's first action to the next invocation.
apply_decision_reveal_only(g, decision0, k) ==
    LET decision == IF g.phase # "PLAYER" THEN "Stand" ELSE decision0
    IN  IF g.phase = "PLAYER" /\ decision = "Hittt"
        THEN apply_hit(g, k)
        ELSE IF g.phase = "PLAYER" /\ decision = "Stand"
        THEN [g |-> [g EXCEPT !.phase = "DEALER"],
              out |-> << <<RESULT_NOT_OVER, g.dealer[2]>> >>]
        ELSE IF g.phase = "DEALER"
        THEN apply_dealer(g, <<>>, k)
        ELSE apply_over(g, <<>>)

\* BlackjackRound.apply_decision: the round after it and the list of
\* (result, card) pairs it returns.
apply_decision(g, decision0, k) ==
    LET decision == IF g.phase # "PLAYER" THEN "Stand" ELSE decision0
    IN  IF g.phase = "PLAYER" /\ decision = "Hittt"
        THEN apply_hit(g, k)
        ELSE LET stood == g.phase = "PLAYER" /\ decision = "Stand"
                 g1 == IF stood THEN [g EXCEPT !.phase = "DEALER"] ELSE g
                 out1 == IF stood THEN << <<RESULT_NOT_OVER, g.dealer[2]>> >> ELSE <<>>
             IN  IF g1.phase = "DEALER"
                 THEN apply_dealer(g1, out1, k)
                 ELSE apply_over(g1, out1)

(***************************************************************************)
(* State.                                                                  *)
(***************************************************************************)
VARIABLES
    cards,      \* Deck.cards of the session's deck
    player,     \* BlackjackRound.player
    dealer,     \* BlackjackRound.dealer
    phase,      \* BlackjackRound.phase
    call,       \* the last engine invocation: [op, decision]
    pre,        \* the round as that invocation found it
    out,        \* the list that invocation returned
    outcome,    \* the result code emitted when the round became OVER (0 before)
    drawn       \* the set of cards drawn from the deck since its last reset

VARIABLES
    srv_pc,             \* where the server process is (see SrvPcs)
    srv_req,            \* main: req, the decoded Request (NoReq while unbound)
    srv_rounds,         \* play_session_blackjack: rounds
    round_i,            \* play_session_blackjack: round_i
    srv_player_turn,    \* play_session_blackjack: player_turn
    srv_last_decision,  \* play_session_blackjack: last_decision
    s_sock,             \* the server's end of the connection: none, open, closed
    c_sock,             \* the peer's end of the connection: none, open, closed
    c2s,                \* bytes in flight from the client to the server
    s2c,                \* bytes in flight from the server to the client
    log                 \* the payloads the server sent in this session: [round, msg]

VARIABLES
    cli_pc,             \* where the client process is (see CliPcs)
    cli_rounds,         \* client main: rounds
    cli_round_i,        \* client main: round_i
    cli_j,              \* client main: j, the index of the next initial payload
    cli_player_turn,    \* client main: player_turn
    cli_last_decision,  \* client main: last_decision
    player_ranks,       \* client main: player_ranks
    dealer_up_rank,     \* client main: dealer_up_rank (0 stands for None)
    counts,             \* client main: deck_counter.counts
    cli_log             \* the payloads the client received in this session: [round, msg]

VARIABLES
    seen,       \* CounterSpec: how many times remove_seen was called, per rank
    arg,        \* the arguments of the last call of a strategy or codec function
    res         \* the value that call returned

engineVars == <<cards, player, dealer, phase, call, pre, out, outcome, drawn>>

serverVars == <<srv_pc, srv_req, srv_rounds, round_i, srv_player_turn, srv_last_decision>>

linkVars == <<s_sock, c_sock, c2s, s2c>>

clientVars == <<cli_pc, cli_rounds, cli_round_i, cli_j, cli_player_turn,
                cli_last_decision, player_ranks, dealer_up_rank, counts, cli_log>>

sessionVars == <<serverVars, linkVars, clientVars, log>>

callVars == <<seen, arg, res>>

vars == <<engineVars, sessionVars, callVars>>

game == [player |-> player, dealer |-> dealer, phase |-> phase, cards |-> cards]

NoCall == [op |-> "none", decision |-> "none"]

\* main's local req before its first assignment.
NoReq == [ok |-> FALSE, bound |-> FALSE]

\* The rng orders that matter to an invocation drawing at most n cards: only a
\* deck with fewer than n cards can be reset by it.
ResetChoices(n) == IF Len(cards) < n THEN ShuffleIds ELSE {0}

SetGame(g) ==
    /\ cards' = g.cards
    /\ player' = g.player
    /\ dealer' = g.dealer
    /\ phase' = g.phase

\* The cards drawn since the last reset, after an invocation that found the
\* deck `before` and drew the cards of seq in that order: the deck is reset
\* by the draw that finds it empty.
DrawnAfter(before, seq) ==
    IF Len(seq) <= Len(before)
    THEN drawn \cup {seq[i] : i \in 1..Len(seq)}
    ELSE {seq[i] : i \in (Len(before) + 1)..Len(seq)}

\* The cards an invocation drew, in order: those it added to the hands.
NewCards(before, after) ==
    SubSeq(after.player, Len(before.player) + 1, Len(after.player))
        \o SubSeq(after.dealer, Len(before.dealer) + 1, Len(after.dealer))

\* game = BlackjackRound(deck)
InvokeNew ==
    /\ SetGame(NewGame(cards))
    /\ call' = [op |-> "new", decision |-> "none"]
    /\ pre' = game
    /\ out' = <<>>
    /\ outcome' = RESULT_NOT_OVER
    /\ drawn' = drawn

\* game.start(), on the round g
InvokeStart(g, k) ==
    \E r \in {start(g, k)} :
        /\ SetGame(r.g)
        /\ call' = [op |-> "start", decision |-> "none"]
        /\ pre' = g
        /\ out' = r.ret
        /\ outcome' = RESULT_NOT_OVER
        /\ drawn' = DrawnAfter(g.cards, NewCards(g, r.g))

\* game.apply_decision(decision)
InvokeApply(decision, k) ==
    \E r \in {apply_decision(game, decision, k)} :
        /\ SetGame(r.g)
        /\ call' = [op |-> "apply_decision", decision |-> decision]
        /\ pre' = game
        /\ out' = r.out
        /\ outcome' = IF phase # "OVER" /\ r.g.phase = "OVER"
                      THEN r.out[Len(r.out)][1]
                      ELSE outcome
        /\ drawn' = DrawnAfter(cards, NewCards(game, r.g))

\* No deck and no round: before a session and after it.
NoEngine ==
    /\ cards = <<>>
    /\ player = <<>>
    /\ dealer = <<>>
    /\ phase = "INIT"
    /\ call = NoCall
    /\ pre = NewGame(<<>>)
    /\ out = <<>>
    /\ outcome = RESULT_NOT_OVER
    /\ drawn = {}

\* DeckCounter.__init__
DeckCounter == [r \in Ranks |-> NumSuits]

NoArg == [fn |-> "none"]

\* No strategy or codec function has been called.
NoCalls ==
    /\ seen = [r \in Ranks |-> 0]
    /\ arg = NoArg
    /\ res = NoArg

\* The server in its broadcast/accept loop, the client at its prompt with
\* the DeckCounter cnt, no connection.
SessionIdleWith(cnt) ==
    /\ srv_pc = "accept"
    /\ srv_req = NoReq
    /\ srv_rounds = 0
    /\ round_i = 0
    /\ srv_player_turn = TRUE
    /\ srv_last_decision = "None"
    /\ s_sock = "none"
    /\ c_sock = "none"
    /\ c2s = <<>>
    /\ s2c = <<>>
    /\ log = <<>>
    /\ cli_pc = "idle"
    /\ cli_rounds = 0
    /\ cli_round_i = 0
    /\ cli_j = 0
    /\ cli_player_turn = TRUE
    /\ cli_last_decision = "None"
    /\ player_ranks = <<>>
    /\ dealer_up_rank = 0
    /\ counts = cnt
    /\ cli_log = <<>>

SessionIdle == SessionIdleWith(DeckCounter)

(***************************************************************************)
(* Spec: the round engine alone.                                           *)
(***************************************************************************)
\* deck = Deck(); game = BlackjackRound(deck)
Init ==
    /\ \E k \in ShuffleIds : cards = reset(k)
    /\ player = <<>>
    /\ dealer = <<>>
    /\ phase = "INIT"
    /\ call = NoCall
    /\ pre = NewGame(<<>>)
    /\ out = <<>>
    /\ outcome = RESULT_NOT_OVER
    /\ drawn = {}
    /\ SessionIdle
    /\ NoCalls

Start ==
    /\ phase = "INIT"
    /\ \E k \in ResetChoices(4) : InvokeStart(game, k)
    /\ UNCHANGED sessionVars
    /\ UNCHANGED callVars

\* Any decision, in any phase after the deal.
ApplyDecision ==
    /\ phase # "INIT"
    /\ \E d \in Decisions : \E k \in ResetChoices(1) : InvokeApply(d, k)
    /\ UNCHANGED sessionVars
    /\ UNCHANGED callVars

\* The next round of the session, on the same deck.
NewRound ==
    /\ phase = "OVER"
    /\ InvokeNew
    /\ UNCHANGED sessionVars
    /\ UNCHANGED callVars

Next == Start \/ ApplyDecision \/ NewRound

Spec == Init /\ [][Next]_vars

(***************************************************************************)
(* common/constants.py and common/protocol.py: the wire codec.  A message  *)
(* is the sequence of its bytes.  A decoder returns [ok |-> FALSE] where   *)
(* the code returns None.                                                  *)
(***************************************************************************)
MSG_TYPE_REQUEST == 3
MSG_TYPE_PAYLOAD == 4
TEAM_NAME_FIELD_BYTES == 32
REQUEST_MESSAGE_BYTES == 38
CLIENT_PAYLOAD_MESSAGE_BYTES == 10
SERVER_PAYLOAD_MESSAGE_BYTES == 9

\* struct.pack("!I", PROTOCOL_MAGIC_COOKIE), PROTOCOL_MAGIC_COOKIE = 0xabcddcba
CookieBytes == <<171, 205, 220, 186>>

Invalid == [ok |-> FALSE]

\* "RanTeam".encode("utf-8")
TeamNameUtf8 == <<82, 97, 110, 84, 101, 97, 109>>

\* decision.encode("ascii")
Ascii(decision) ==
    IF decision = "Hittt" THEN <<72, 105, 116, 116, 116>>
    ELSE <<83, 116, 97, 110, 100>>

\* encode_fixed_name_32, on the utf-8 bytes of the name
encode_fixed_name_32(b) ==
    [i \in 1..TEAM_NAME_FIELD_BYTES |-> IF i <= Len(b) THEN b[i] ELSE 0]

\* decode_fixed_name_32: the bytes before the first 0x00
decode_fixed_name_32(raw) ==
    LET zeros == {i \in 1..Len(raw) : raw[i] = 0}
        first == IF zeros = {} THEN Len(raw) + 1
                 ELSE CHOOSE i \in zeros : \A j \in zeros : i <= j
    IN  SubSeq(raw, 1, first - 1)

\* pack_request: struct.pack("!IBB32s", cookie, type, rounds, name)
pack_request(rounds, name) ==
    CookieBytes \o <<MSG_TYPE_REQUEST, rounds>> \o encode_fixed_name_32(name)

\* unpack_request
unpack_request(data) ==
    IF Len(data) # REQUEST_MESSAGE_BYTES THEN Invalid
    ELSE IF SubSeq(data, 1, 4) # CookieBytes THEN Invalid
    ELSE IF data[5] # MSG_TYPE_REQUEST THEN Invalid
    ELSE IF ~(0 <= data[6] /\ data[6] <= 255) THEN Invalid
    ELSE [ok |-> TRUE, rounds |-> data[6],
          client_team_name |-> decode_fixed_name_32(SubSeq(data, 7, 38))]

\* pack_client_payload_decision: struct.pack("!IB5s", cookie, type, decision)
pack_client_payload_decision(decision) ==
    CookieBytes \o <<MSG_TYPE_PAYLOAD>> \o Ascii(decision)

\* unpack_client_payload_decision
unpack_client_payload_decision(data) ==
    IF Len(data) # CLIENT_PAYLOAD_MESSAGE_BYTES THEN Invalid
    ELSE IF SubSeq(data, 1, 4) # CookieBytes THEN Invalid
    ELSE IF data[5] # MSG_TYPE_PAYLOAD THEN Invalid
    ELSE IF SubSeq(data, 6, 10) = Ascii("Hittt") THEN [ok |-> TRUE, decision |-> "Hittt"]
    ELSE IF SubSeq(data, 6, 10) = Ascii("Stand") THEN [ok |-> TRUE, decision |-> "Stand"]
    ELSE Invalid

\* A variant of pack_server_payload that writes the rank low byte first.
pack_server_payload_little_endian(result, rank, suit) ==
    CookieBytes \o <<MSG_TYPE_PAYLOAD, result, rank % 256, rank \div 256, suit>>

\* pack_server_payload: struct.pack("!IBBHB", cookie, type, result, rank, suit)
pack_server_payload(result, rank, suit) ==
    CookieBytes \o <<MSG_TYPE_PAYLOAD, result, rank \div 256, rank % 256, suit>>

\* unpack_server_payload
unpack_server_payload(data) ==
    IF Len(data) # SERVER_PAYLOAD_MESSAGE_BYTES THEN Invalid
    ELSE LET result == data[6]
             rank == data[7] * 256 + data[8]
             suit == data[9]
         IN  IF SubSeq(data, 1, 4) # CookieBytes THEN Invalid
             ELSE IF data[5] # MSG_TYPE_PAYLOAD THEN Invalid
             ELSE IF ~(0 <= result /\ result <= 3 /\ 1 <= rank /\ rank <= 13
                       /\ 0 <= suit /\ suit <= 3) THEN Invalid
             ELSE [ok |-> TRUE, result |-> result, rank |-> rank, suit |-> suit]

(***************************************************************************)
(* common/net_utils.py: recv_exact on a byte stream, taken as a whole.     *)
(***************************************************************************)
\* recv_exact(sock, n) returns: n bytes have arrived.
CanRecv(stream, n) == Len(stream) >= n

\* recv_exact(sock, n) raises ConnectionError: the peer has closed and fewer
\* than n bytes are left to read.
RecvRaises(stream, peer, n) == Len(stream) < n /\ peer = "closed"

Take(stream, n) == SubSeq(stream, 1, n)

Drop(stream, n) == SubSeq(stream, n + 1, Len(stream))

(***************************************************************************)
(* server/server_main.py: main and play_session_blackjack.                 *)
(*   accept     : in the broadcast/accept loop of main                     *)
(*   request    : a connection accepted, reading the Request               *)
(*   deal       : at the top of the body of `for round_i in range(rounds)` *)
(*   loop       : at the top of the body of the round's `while True`       *)
(*   closing    : leaving the session normally, at main's inner `finally`  *)
(*   terminated : the process has ended on an uncaught exception          *)
(*   stopped    : the process has ended on KeyboardInterrupt               *)
(***************************************************************************)
SrvPcs == {"accept", "request", "deal", "loop", "closing", "terminated", "stopped"}

RECURSIVE Flatten(_)
Flatten(msgs) == IF msgs = <<>> THEN <<>> ELSE Head(msgs) \o Flatten(Tail(msgs))

\* The messages of the events sent by the loop of lines 64-68: all of them up
\* to and including the first whose result is not 0.
SentEvents(events) ==
    LET ended == {i \in 1..Len(events) : events[i][1] # 0}
        n == IF ended = {} THEN Len(events)
             ELSE CHOOSE i \in ended : \A j \in ended : i <= j
    IN  [i \in 1..n |-> pack_server_payload(events[i][1], events[i][2].rank,
                                            events[i][2].suit)]

Logged(msgs) == [i \in 1..Len(msgs) |-> [round |-> round_i, msg |-> msgs[i]]]

\* client_sock.sendall of each of msgs
SendAll(msgs) ==
    /\ s2c' = s2c \o Flatten(msgs)
    /\ log' = log \o Logged(msgs)

\* main, lines 106-107: accept a pending connection.
SrvAccept ==
    /\ srv_pc = "accept"
    /\ s_sock = "none"
    /\ c_sock # "none"
    /\ s_sock' = "open"
    /\ srv_pc' = "request"
    /\ UNCHANGED <<engineVars, srv_req, srv_rounds, round_i, srv_player_turn, srv_last_decision,
                   c_sock, c2s, s2c, log, clientVars>>
    /\ UNCHANGED callVars

\* A variant of the server that creates the session's deck before it looks
\* at the Request.
SrvReadRequest_deck_first ==
    /\ srv_pc = "request"
    /\ CanRecv(c2s, REQUEST_MESSAGE_BYTES)
    /\ LET req == unpack_request(Take(c2s, REQUEST_MESSAGE_BYTES))
       IN  /\ c2s' = Drop(c2s, REQUEST_MESSAGE_BYTES)
           /\ srv_req' = req
           /\ \E k \in ShuffleIds : cards' = reset(k)
           /\ drawn' = {}
           /\ IF ~req.ok
              THEN /\ srv_pc' = "closing"
                   /\ UNCHANGED srv_rounds
              ELSE /\ srv_rounds' = req.rounds
                   /\ srv_pc' = IF req.rounds > 0 THEN "deal" ELSE "closing"
    /\ UNCHANGED <<player, dealer, phase, call, pre, out, outcome, round_i,
                   srv_player_turn, srv_last_decision, s_sock, c_sock, s2c, log,
                   clientVars>>
    /\ UNCHANGED callVars

\* A variant of the round loop that plays its first round before it looks
\* at the round count.
in_range_after_first(i, n) == i = 0 \/ i < n

\* play_session_blackjack, line 32: `for round_i in range(rounds)` has an
\* iteration i.
in_range(i, n) == i < n

\* main, lines 110-124, and play_session_blackjack, lines 30-32: read the
\* Request; on a valid one create the session's deck and enter the round
\* loop.
SrvReadRequest ==
    /\ srv_pc = "request"
    /\ CanRecv(c2s, REQUEST_MESSAGE_BYTES)
    /\ LET req == unpack_request(Take(c2s, REQUEST_MESSAGE_BYTES))
       IN  /\ c2s' = Drop(c2s, REQUEST_MESSAGE_BYTES)
           /\ srv_req' = req
           /\ IF ~req.ok
              THEN /\ srv_pc' = "closing"
                   /\ UNCHANGED <<cards, drawn, srv_rounds>>
              ELSE /\ srv_rounds' = req.rounds
                   /\ \E k \in ShuffleIds : cards' = reset(k)
                   /\ drawn' = {}
                   /\ srv_pc' = IF in_range(0, req.rounds) THEN "deal" ELSE "closing"
    /\ UNCHANGED <<player, dealer, phase, call, pre, out, outcome, round_i,
                   srv_player_turn, srv_last_decision, s_sock, c_sock, s2c, log,
                   clientVars>>
    /\ UNCHANGED callVars

\* play_session_blackjack, lines 33-41: a new round on the session's deck,
\* the deal, the three initial payloads.
SrvStartRound ==
    /\ srv_pc = "deal"
    /\ \E k \in ResetChoices(4) : InvokeStart(NewGame(cards), k)
    /\ SendAll([i \in 1..Len(out') |->
                   pack_server_payload(RESULT_NOT_OVER, out'[i].rank, out'[i].suit)])
    /\ srv_player_turn' = TRUE
    /\ srv_last_decision' = "None"
    /\ srv_pc' = "loop"
    /\ UNCHANGED <<srv_req, srv_rounds, round_i, s_sock, c_sock, c2s, clientVars>>
    /\ UNCHANGED callVars

\* A variant of the end-of-round test that looks at the first event of the
\* list instead of the last.
SendEventsAndLoop_first_event(events) ==
    /\ SendAll(SentEvents(events))
    /\ IF events # <<>> /\ events[1][1] # 0
       THEN /\ round_i' = round_i + 1
            /\ srv_pc' = IF round_i + 1 < srv_rounds THEN "deal" ELSE "closing"
       ELSE /\ round_i' = round_i
            /\ srv_pc' = "loop"

\* play_session_blackjack, lines 63-71 and the next iteration of line 32:
\* send the events; on a final one the round is over, and after the last
\* round the session returns.
SendEventsAndLoop(events) ==
    /\ SendAll(SentEvents(events))
    /\ IF events # <<>> /\ events[Len(events)][1] # 0
       THEN /\ round_i' = round_i + 1
            /\ srv_pc' = IF round_i + 1 < srv_rounds THEN "deal" ELSE "closing"
       ELSE /\ round_i' = round_i
            /\ srv_pc' = "loop"

\* A variant of the round loop that takes an undecodable decision for a
\* Stand.
SrvRecvDecision_invalid_is_stand ==
    /\ srv_pc = "loop"
    /\ srv_player_turn
    /\ CanRecv(c2s, CLIENT_PAYLOAD_MESSAGE_BYTES)
    /\ c2s' = Drop(c2s, CLIENT_PAYLOAD_MESSAGE_BYTES)
    /\ LET dec == unpack_client_payload_decision(Take(c2s, CLIENT_PAYLOAD_MESSAGE_BYTES))
           decision == IF dec.ok THEN dec.decision ELSE "Stand"
       IN  /\ srv_last_decision' = decision
           /\ srv_player_turn' = (decision # "Stand")
           /\ \E k \in ResetChoices(1) : InvokeApply(decision, k)
           /\ SendEventsAndLoop(out')
    /\ UNCHANGED <<srv_req, srv_rounds, s_sock, c_sock, clientVars>>
    /\ UNCHANGED callVars

\* play_session_blackjack, lines 45-57 and 63-71: one pass of the round loop
\* while it is the player's turn.
SrvRecvDecision ==
    /\ srv_pc = "loop"
    /\ srv_player_turn
    /\ CanRecv(c2s, CLIENT_PAYLOAD_MESSAGE_BYTES)
    /\ c2s' = Drop(c2s, CLIENT_PAYLOAD_MESSAGE_BYTES)
    /\ LET dec == unpack_client_payload_decision(Take(c2s, CLIENT_PAYLOAD_MESSAGE_BYTES))
       IN  IF ~dec.ok
           THEN /\ srv_pc' = "closing"
                /\ UNCHANGED <<engineVars, round_i, srv_player_turn, srv_last_decision,
                               s2c, log>>
           ELSE /\ srv_last_decision' = dec.decision
                /\ srv_player_turn' = (dec.decision # "Stand")
                /\ \E k \in ResetChoices(1) : InvokeApply(dec.decision, k)
                /\ SendEventsAndLoop(out')
    /\ UNCHANGED <<srv_req, srv_rounds, s_sock, c_sock, clientVars>>
    /\ UNCHANGED callVars

\* play_session_blackjack, lines 59-71: one pass of the round loop in the
\* dealer phase.
SrvDealerStep ==
    /\ srv_pc = "loop"
    /\ ~srv_player_turn
    /\ \E k \in ResetChoices(1) : InvokeApply("Stand", k)
    /\ SendEventsAndLoop(out')
    /\ UNCHANGED <<srv_req, srv_rounds, srv_player_turn, srv_last_decision, s_sock, c_sock,
                   c2s, clientVars>>
    /\ UNCHANGED callVars

\* main, lines 126-128: the inner `finally` on the way back to the
\* broadcast/accept loop; the session's deck and round are dropped.
SrvClose ==
    /\ srv_pc = "closing"
    /\ s_sock' = "closed"
    /\ srv_pc' = "accept"
    /\ srv_rounds' = 0
    /\ round_i' = 0
    /\ srv_player_turn' = TRUE
    /\ srv_last_decision' = "None"
    /\ SetGame(NewGame(<<>>))
    /\ call' = NoCall
    /\ pre' = NewGame(<<>>)
    /\ out' = <<>>
    /\ outcome' = RESULT_NOT_OVER
    /\ drawn' = {}
    /\ UNCHANGED <<srv_req, c_sock, c2s, s2c, log, clientVars>>
    /\ UNCHANGED callVars

\* The process ends: the exception runs the inner `finally` (the client
\* socket is closed), is not caught by `except KeyboardInterrupt` of line
\* 130, and leaves main.
SrvTerminate ==
    /\ srv_pc' = "terminated"
    /\ s_sock' = "closed"
    /\ UNCHANGED <<engineVars, srv_req, srv_rounds, round_i, srv_player_turn, srv_last_decision,
                   c_sock, c2s, s2c, log, clientVars>>
    /\ UNCHANGED callVars

\* recv_exact raises ConnectionError at line 112 of main or at line 47 of
\* play_session_blackjack: the peer closed before the message was complete.
SrvRecvFails ==
    /\ \/ srv_pc = "request" /\ RecvRaises(c2s, c_sock, REQUEST_MESSAGE_BYTES)
       \/ /\ srv_pc = "loop" /\ srv_player_turn
          /\ RecvRaises(c2s, c_sock, CLIENT_PAYLOAD_MESSAGE_BYTES)
    /\ SrvTerminate

\* sendall raises (BrokenPipeError, ConnectionResetError) at line 38 or 65:
\* the peer has closed the connection.
SrvSendFails ==
    /\ srv_pc = "deal" \/ (srv_pc = "loop" /\ ~srv_player_turn)
    /\ c_sock = "closed"
    /\ SrvTerminate

\* main, lines 130-134: the operator stops the server (KeyboardInterrupt);
\* its sockets are closed.
SrvInterrupted ==
    /\ srv_pc \notin {"terminated", "stopped"}
    /\ srv_pc' = "stopped"
    /\ s_sock' = IF s_sock = "none" /\ c_sock = "none" THEN "none" ELSE "closed"
    /\ UNCHANGED <<engineVars, srv_req, srv_rounds, round_i, srv_player_turn, srv_last_decision,
                   c_sock, c2s, s2c, log, clientVars>>
    /\ UNCHANGED callVars

(***************************************************************************)
(* client/client_main.py: main.                                            *)
(*   idle    : at the prompt or listening for offers (top of the outer     *)
(*             loop)                                                       *)
(*   initial : reading the three initial payloads of a round               *)
(*   turn    : at the top of the round's `while True`, player_turn true    *)
(*   recv    : reading the next payload of the round                       *)
(*   foreign : the peer is not this client (it has sent bytes this client  *)
(*             never sends)                                                *)
(*   exited  : main has returned ('q' at the prompt)                       *)
(***************************************************************************)
CliPcs == {"idle", "initial", "turn", "recv", "foreign", "exited"}

\* A variant of remove_seen without the floor at 0.
remove_seen_unfloored(cnt, rank) == [cnt EXCEPT ![rank] = cnt[rank] - 1]

\* DeckCounter.remove_seen
remove_seen(cnt, rank) ==
    IF cnt[rank] > 0 THEN [cnt EXCEPT ![rank] = cnt[rank] - 1] ELSE cnt

\* The client at the top of its outer loop, all session state dropped.
ClientReset ==
    /\ cli_pc' = "idle"
    /\ cli_rounds' = 0
    /\ cli_round_i' = 0
    /\ cli_j' = 0
    /\ cli_player_turn' = TRUE
    /\ cli_last_decision' = "None"
    /\ player_ranks' = <<>>
    /\ dealer_up_rank' = 0
    /\ counts' = DeckCounter
    /\ cli_log' = <<>>

\* main, lines 127-175: an Offer received from the server in its broadcast
\* loop, connect, the Request for the rounds read at the prompt, the start
\* of the first round.
CliConnectWith(rounds) ==
    /\ cli_pc = "idle"
    /\ srv_pc = "accept"
    /\ ~(s_sock = "none" /\ c_sock # "none")
    /\ c2s' = pack_request(rounds, TeamNameUtf8)
    /\ cli_rounds' = rounds
    /\ c_sock' = "open"
    /\ s_sock' = "none"
    /\ s2c' = <<>>
    /\ log' = <<>>
    /\ cli_log' = <<>>
    /\ counts' = DeckCounter
    /\ cli_round_i' = 0
    /\ player_ranks' = <<>>
    /\ dealer_up_rank' = 0
    /\ cli_j' = 0
    /\ cli_player_turn' = TRUE
    /\ cli_last_decision' = "None"
    /\ cli_pc' = "initial"
    /\ UNCHANGED <<engineVars, serverVars>>
    /\ UNCHANGED callVars

\* main, lines 59-175: a round count accepted by the prompt (1..255, here
\* at most MaxRounds), then the connection.
CliConnect == \E rounds \in 1..MaxRounds : CliConnectWith(rounds)

\* A variant of the exception handlers that ends the process.
CliAbandon_exits ==
    /\ cli_pc' = "exited"
    /\ UNCHANGED <<cli_rounds, cli_round_i, cli_j, cli_player_turn, cli_last_decision,
                   player_ranks, dealer_up_rank, counts, cli_log, c_sock>>

\* main, lines 308-314: the session is abandoned on an exception; the
\* socket is not closed on this path.
CliAbandon ==
    /\ cli_pc' = "idle"
    /\ UNCHANGED <<cli_rounds, cli_round_i, cli_j, cli_player_turn, cli_last_decision,
                   player_ranks, dealer_up_rank, counts, cli_log, c_sock>>

\* main, lines 179-201: one of the three initial payloads.
CliRecvInitial ==
    /\ cli_pc = "initial"
    /\ CanRecv(s2c, SERVER_PAYLOAD_MESSAGE_BYTES)
    /\ s2c' = Drop(s2c, SERVER_PAYLOAD_MESSAGE_BYTES)
    /\ LET raw == Take(s2c, SERVER_PAYLOAD_MESSAGE_BYTES)
           srv == unpack_server_payload(raw)
       IN  IF ~srv.ok
           THEN CliAbandon
           ELSE /\ counts' = remove_seen(counts, srv.rank)
                /\ IF cli_j < 2
                   THEN /\ player_ranks' = Append(player_ranks, srv.rank)
                        /\ UNCHANGED dealer_up_rank
                   ELSE /\ dealer_up_rank' = srv.rank
                        /\ UNCHANGED player_ranks
                /\ cli_j' = cli_j + 1
                /\ IF cli_j + 1 < 3
                   THEN /\ cli_pc' = "initial"
                        /\ UNCHANGED <<cli_player_turn, cli_last_decision>>
                   ELSE /\ cli_pc' = "turn"
                        /\ cli_player_turn' = TRUE
                        /\ cli_last_decision' = "None"
                /\ cli_log' = Append(cli_log, [round |-> cli_round_i, msg |-> raw])
                /\ UNCHANGED <<cli_rounds, cli_round_i, c_sock>>
    /\ UNCHANGED <<engineVars, serverVars, s_sock, c2s, log>>
    /\ UNCHANGED callVars

\* A variant of the client that keeps its turn after Stand, and so goes on
\* sending decisions while the dealer plays.
CliDecide_keeps_turn ==
    /\ cli_pc = "turn"
    /\ cli_player_turn
    /\ \E decision \in Decisions :
          /\ cli_last_decision' = decision
          /\ c2s' = c2s \o pack_client_payload_decision(decision)
    /\ cli_player_turn' = TRUE
    /\ cli_pc' = "recv"
    /\ UNCHANGED <<engineVars, serverVars, s_sock, c_sock, s2c, log, cli_rounds,
                   cli_round_i, cli_j, player_ranks, dealer_up_rank, counts, cli_log>>
    /\ UNCHANGED callVars

\* main, lines 205-246: the decision (the strategy's or the user's) is sent.
CliDecide ==
    /\ cli_pc = "turn"
    /\ cli_player_turn
    /\ \E decision \in Decisions :
          /\ cli_last_decision' = decision
          /\ c2s' = c2s \o pack_client_payload_decision(decision)
          /\ cli_player_turn' = (decision # "Stand")
    /\ cli_pc' = "recv"
    /\ UNCHANGED <<engineVars, serverVars, s_sock, c_sock, s2c, log, cli_rounds,
                   cli_round_i, cli_j, player_ranks, dealer_up_rank, counts, cli_log>>
    /\ UNCHANGED callVars

\* A variant of line 261 that takes every payload of the round loop for a
\* card of the player.
appends_to_player_always(player_turn, last_decision) == TRUE

\* main, line 261: the payload's card goes to player_ranks.
appends_to_player(player_turn, last_decision) ==
    player_turn /\ last_decision = "Hittt"

\* main, lines 248-293: the next payload of the round; a result other than 0
\* ends the round, and the last round's end closes the socket.
CliRecvPayload ==
    /\ cli_pc = "recv"
    /\ CanRecv(s2c, SERVER_PAYLOAD_MESSAGE_BYTES)
    /\ s2c' = Drop(s2c, SERVER_PAYLOAD_MESSAGE_BYTES)
    /\ LET raw == Take(s2c, SERVER_PAYLOAD_MESSAGE_BYTES)
           srv == unpack_server_payload(raw)
           hit == appends_to_player(cli_player_turn, cli_last_decision)
       IN  IF ~srv.ok
           THEN CliAbandon
           ELSE /\ counts' = remove_seen(counts, srv.rank)
                /\ cli_log' = Append(cli_log, [round |-> cli_round_i, msg |-> raw])
                /\ IF srv.result = 0
                   THEN /\ player_ranks' = IF hit THEN Append(player_ranks, srv.rank)
                                           ELSE player_ranks
                        /\ cli_pc' = IF cli_player_turn THEN "turn" ELSE "recv"
                        /\ UNCHANGED <<cli_round_i, cli_j, dealer_up_rank, c_sock>>
                   ELSE /\ cli_round_i' = cli_round_i + 1
                        /\ IF cli_round_i + 1 < cli_rounds
                           THEN /\ player_ranks' = <<>>
                                /\ dealer_up_rank' = 0
                                /\ cli_j' = 0
                                /\ cli_pc' = "initial"
                                /\ UNCHANGED c_sock
                           ELSE /\ player_ranks' = IF hit THEN Append(player_ranks, srv.rank)
                                                   ELSE player_ranks
                                /\ c_sock' = "closed"
                                /\ cli_pc' = "idle"
                                /\ UNCHANGED <<cli_j, dealer_up_rank>>
                /\ UNCHANGED <<cli_rounds, cli_player_turn, cli_last_decision>>
    /\ UNCHANGED <<engineVars, serverVars, s_sock, c2s, log>>
    /\ UNCHANGED callVars

\* recv_exact raises ConnectionError at line 180 or 249: the server's end
\* is closed and no whole payload is left; the session is abandoned.
CliRecvFails ==
    /\ cli_pc \in {"initial", "recv"}
    /\ RecvRaises(s2c, s_sock, SERVER_PAYLOAD_MESSAGE_BYTES)
    /\ CliAbandon
    /\ UNCHANGED <<engineVars, serverVars, s_sock, c2s, s2c, log>>
    /\ UNCHANGED callVars

(***************************************************************************)
(* The environment: what a peer of the server may do that this client      *)
(* does not.                                                               *)
(***************************************************************************)
\* Ten bytes that are no ClientDecision: a wrong cookie byte, a wrong tag,
\* a wrong decision.
MalformedDecisions ==
    { <<171, 205, 220, 187>> \o <<MSG_TYPE_PAYLOAD>> \o Ascii("Stand"),
      CookieBytes \o <<MSG_TYPE_REQUEST>> \o Ascii("Hittt"),
      CookieBytes \o <<MSG_TYPE_PAYLOAD>> \o <<72, 105, 116, 32, 32>> }

\* Thirty-eight bytes that are no Request: a wrong cookie byte, a wrong tag.
MalformedRequests ==
    { <<171, 205, 220, 187>> \o <<MSG_TYPE_REQUEST, 1>> \o encode_fixed_name_32(TeamNameUtf8),
      CookieBytes \o <<MSG_TYPE_PAYLOAD, 1>> \o encode_fixed_name_32(TeamNameUtf8) }

\* A peer that is not this client connects and sends thirty-eight bytes
\* that are no Request.
PeerConnectsMalformed ==
    /\ cli_pc = "idle"
    /\ srv_pc = "accept"
    /\ ~(s_sock = "none" /\ c_sock # "none")
    /\ \E m \in MalformedRequests : c2s' = m
    /\ c_sock' = "open"
    /\ s_sock' = "none"
    /\ s2c' = <<>>
    /\ log' = <<>>
    /\ cli_pc' = "foreign"
    /\ cli_rounds' = 0
    /\ cli_round_i' = 0
    /\ cli_j' = 0
    /\ cli_player_turn' = TRUE
    /\ cli_last_decision' = "None"
    /\ player_ranks' = <<>>
    /\ dealer_up_rank' = 0
    /\ counts' = DeckCounter
    /\ cli_log' = <<>>
    /\ UNCHANGED <<engineVars, serverVars>>
    /\ UNCHANGED callVars

\* A peer that is not this client connects and sends a Request for 0
\* rounds.
PeerRequestsNoRounds ==
    /\ cli_pc = "idle"
    /\ srv_pc = "accept"
    /\ ~(s_sock = "none" /\ c_sock # "none")
    /\ c2s' = pack_request(0, TeamNameUtf8)
    /\ c_sock' = "open"
    /\ s_sock' = "none"
    /\ s2c' = <<>>
    /\ log' = <<>>
    /\ cli_pc' = "foreign"
    /\ cli_rounds' = 0
    /\ cli_round_i' = 0
    /\ cli_j' = 0
    /\ cli_player_turn' = TRUE
    /\ cli_last_decision' = "None"
    /\ player_ranks' = <<>>
    /\ dealer_up_rank' = 0
    /\ counts' = DeckCounter
    /\ cli_log' = <<>>
    /\ UNCHANGED <<engineVars, serverVars>>
    /\ UNCHANGED callVars

\* The peer sends ten bytes that are no ClientDecision where a decision is
\* due.
PeerSendsMalformed ==
    /\ cli_pc = "turn"
    /\ \E m \in MalformedDecisions : c2s' = c2s \o m
    /\ cli_pc' = "foreign"
    /\ UNCHANGED <<engineVars, serverVars, s_sock, c_sock, s2c, log, cli_rounds,
                   cli_round_i, cli_j, cli_player_turn, cli_last_decision,
                   player_ranks, dealer_up_rank, counts, cli_log>>
    /\ UNCHANGED callVars

\* The peer's end of the connection closes in mid-session (the client
\* process is stopped, or its leaked socket is collected); a client process
\* is at its prompt afterwards.
PeerCloses ==
    /\ c_sock = "open"
    /\ c_sock' = "closed"
    /\ ClientReset
    /\ UNCHANGED <<engineVars, serverVars, s_sock, c2s, s2c, log>>
    /\ UNCHANGED callVars

(***************************************************************************)
(* SessionSpec: the server, the client and the connection.                 *)
(***************************************************************************)
SessionInit == NoEngine /\ SessionIdle /\ NoCalls

SessionNext ==
    \/ SrvAccept
    \/ SrvReadRequest
    \/ SrvStartRound
    \/ SrvRecvDecision
    \/ SrvDealerStep
    \/ SrvClose
    \/ SrvRecvFails
    \/ SrvSendFails
    \/ SrvInterrupted
    \/ CliConnect
    \/ CliRecvInitial
    \/ CliDecide
    \/ CliRecvPayload
    \/ CliRecvFails
    \/ PeerConnectsMalformed
    \/ PeerRequestsNoRounds
    \/ PeerSendsMalformed
    \/ PeerCloses

SessionSpec == SessionInit /\ [][SessionNext]_vars

(***************************************************************************)
(* CounterSpec: a DeckCounter (client/strategy.py) under any calls of       *)
(* remove_seen.                                                            *)
(***************************************************************************)
\* The calls explored: at most MaxCalls on one DeckCounter.
MaxCalls == 5

RECURSIVE SumTo(_, _)
SumTo(f, n) == IF n = 0 THEN 0 ELSE f[n] + SumTo(f, n - 1)

\* DeckCounter.total_remaining
total_remaining(cnt) == SumTo(cnt, NumRanks)

\* The variables of the session other than the client's DeckCounter.
sessionRest ==
    <<serverVars, linkVars, log, cli_pc, cli_rounds, cli_round_i, cli_j,
      cli_player_turn, cli_last_decision, player_ranks, dealer_up_rank, cli_log>>

\* deck_counter = DeckCounter()
CounterInit == NoEngine /\ SessionIdle /\ NoCalls

\* deck_counter.remove_seen(rank)
RemoveSeen ==
    /\ SumTo(seen, NumRanks) < MaxCalls
    /\ \E rank \in Ranks :
          /\ counts' = remove_seen(counts, rank)
          /\ seen' = [seen EXCEPT ![rank] = seen[rank] + 1]
          /\ arg' = [fn |-> "remove_seen", rank |-> rank, counts |-> counts]
    /\ res' = [fn |-> "remove_seen"]
    /\ UNCHANGED <<engineVars, sessionRest>>

CounterNext == RemoveSeen

CounterSpec == CounterInit /\ [][CounterNext]_vars

(***************************************************************************)
(* client/strategy.py: hand values, the bust probability, the decision.    *)
(* A probability is the pair <<numerator, denominator>> of the division    *)
(* the code performs; 0.0 is <<0, 1>>.                                     *)
(***************************************************************************)
bj_value(rank) ==
    IF rank = 1 THEN 1
    ELSE IF 2 <= rank /\ rank <= 10 THEN rank
    ELSE 10

RECURSIVE SumBjValues(_)
SumBjValues(ranks) ==
    IF ranks = <<>> THEN 0 ELSE bj_value(Head(ranks)) + SumBjValues(Tail(ranks))

\* A variant of the client's hand_value that promotes an Ace only when the
\* total stays below 21.
strategy_hand_value_below_21(ranks) ==
    LET total == SumBjValues(ranks)
        aces == Cardinality({i \in 1..Len(ranks) : ranks[i] = 1})
    IN  IF aces > 0 /\ total + 10 < 21
        THEN <<total + 10, TRUE>>
        ELSE <<total, FALSE>>

\* strategy.hand_value(ranks) = <<total, soft>>
strategy_hand_value(ranks) ==
    LET total == SumBjValues(ranks)
        aces == Cardinality({i \in 1..Len(ranks) : ranks[i] = 1})
    IN  IF aces > 0 /\ total + 10 <= 21
        THEN <<total + 10, TRUE>>
        ELSE <<total, FALSE>>

\* The bust count of the loop of lines 46-53, over the ranks 1..n.
RECURSIVE BustCount(_, _, _)
BustCount(cnt, ranks, n) ==
    IF n = 0 THEN 0
    ELSE BustCount(cnt, ranks, n - 1)
         + (IF cnt[n] <= 0 THEN 0
            ELSE IF strategy_hand_value(Append(ranks, n))[1] > 21 THEN cnt[n]
            ELSE 0)

\* A variant of the bust probability that adds 1, not the rank's count,
\* for each busting rank.
bust_probability_counts_ranks(cnt, ranks) ==
    LET total_cards == total_remaining(cnt)
        bust == {r \in Ranks : cnt[r] > 0 /\ strategy_hand_value(Append(ranks, r))[1] > 21}
    IN  IF total_cards = 0 THEN <<0, 1>>
        ELSE <<Cardinality(bust), total_cards>>

\* A variant of the bust probability that takes a new total of 21 for a
\* bust.
bust_probability_from_21(cnt, ranks) ==
    LET total_cards == total_remaining(cnt)
        bust == {r \in Ranks : cnt[r] > 0 /\ strategy_hand_value(Append(ranks, r))[1] >= 21}
    IN  IF total_cards = 0 THEN <<0, 1>>
        ELSE <<SumTo([r \in Ranks |-> IF r \in bust THEN cnt[r] ELSE 0], NumRanks),
               total_cards>>

\* DeckCounter.bust_probability_if_hit
bust_probability_if_hit(cnt, ranks) ==
    LET total_cards == total_remaining(cnt)
    IN  IF total_cards = 0 THEN <<0, 1>>
        ELSE <<BustCount(cnt, ranks, NumRanks), total_cards>>

\* p <= t / 100, for a probability p and a threshold of t hundredths.  With
\* a denominator of at most 52 the float quotient is on the same side of
\* 0.40, 0.45 and 0.55 as the exact one, and equal to the literal when the
\* exact quotient is.
AtMostHundredths(p, t) == 100 * p[1] <= t * p[2]

\* A variant of choose_decision that stands when the bust probability
\* equals the threshold.
choose_decision_strict(ranks, dealer_up, cnt) ==
    LET hv == strategy_hand_value(ranks)
        p_bust == bust_probability_if_hit(cnt, ranks)
        threshold == IF dealer_up = 0 THEN 45
                     ELSE IF dealer_up \in {1, 10, 11, 12, 13, 9, 8, 7} THEN 55
                     ELSE 40
    IN  IF hv[1] <= 11 THEN "Hittt"
        ELSE IF hv[1] >= 17 /\ ~hv[2] THEN "Stand"
        ELSE IF hv[1] >= 18 /\ hv[2] THEN "Stand"
        ELSE IF 100 * p_bust[1] < threshold * p_bust[2] THEN "Hittt"
        ELSE "Stand"

\* A variant of choose_decision that stands on every total of 17 or more,
\* soft or hard.
choose_decision_stands_on_17(ranks, dealer_up, cnt) ==
    LET hv == strategy_hand_value(ranks)
        p_bust == bust_probability_if_hit(cnt, ranks)
        threshold == IF dealer_up = 0 THEN 45
                     ELSE IF dealer_up \in {1, 10, 11, 12, 13, 9, 8, 7} THEN 55
                     ELSE 40
    IN  IF hv[1] <= 11 THEN "Hittt"
        ELSE IF hv[1] >= 17 THEN "Stand"
        ELSE IF AtMostHundredths(p_bust, threshold) THEN "Hittt"
        ELSE "Stand"

\* choose_decision; dealer_up is 0 for None.
choose_decision(ranks, dealer_up, cnt) ==
    LET hv == strategy_hand_value(ranks)
        total == hv[1]
        soft == hv[2]
        p_bust == bust_probability_if_hit(cnt, ranks)
        threshold == IF dealer_up = 0 THEN 45
                     ELSE IF dealer_up \in {1, 10, 11, 12, 13, 9, 8, 7} THEN 55
                     ELSE 40
    IN  IF total <= 11 THEN "Hittt"
        ELSE IF total >= 17 /\ ~soft THEN "Stand"
        ELSE IF total >= 18 /\ soft THEN "Stand"
        ELSE IF AtMostHundredths(p_bust, threshold) THEN "Hittt"
        ELSE "Stand"

(***************************************************************************)
(* StrategySpec: the strategy functions applied to any hand, any dealer    *)
(* upcard and a family of DeckCounter states.                              *)
(***************************************************************************)
\* The hands explored hold at most MaxHandLen ranks.
MaxHandLen == 3

\* The DeckCounter states explored: the ranks 1..6, 7..9 and 10..13 are
\* three groups, and the ranks of a group have the same count.  The empty
\* and the full counter are among them, and so are counters that put the
\* bust probability of a hand exactly at 0.40, 0.45 and 0.55.
CounterStates ==
    { [r \in Ranks |-> IF r <= 6 THEN lo ELSE IF r <= 9 THEN mid ELSE hi] :
        lo \in {0, 3, 4}, mid \in {0, 2, 4}, hi \in {0, 4} }

\* The variables the strategy functions do not read.
strategyRest ==
    <<engineVars, serverVars, linkVars, log, cli_pc, cli_rounds, cli_round_i, cli_j,
      cli_player_turn, cli_last_decision, cli_log, seen>>

StrategyInit ==
    /\ NoEngine
    /\ NoCalls
    /\ \E cnt \in CounterStates : SessionIdleWith(cnt)

\* player_ranks.append(rank)
TakeRank ==
    /\ arg = NoArg
    /\ Len(player_ranks) < MaxHandLen
    /\ \E rank \in Ranks : player_ranks' = Append(player_ranks, rank)
    /\ UNCHANGED <<strategyRest, counts, dealer_up_rank, arg, res>>

\* deck.bust_probability_if_hit(player_ranks)
BustProbability ==
    /\ arg = NoArg
    /\ arg' = [fn |-> "bust_probability_if_hit"]
    /\ res' = [fn |-> "bust_probability_if_hit",
               p |-> bust_probability_if_hit(counts, player_ranks)]
    /\ UNCHANGED <<strategyRest, counts, player_ranks, dealer_up_rank>>

\* choose_decision(player_ranks, dealer_up_rank, deck_counter), for every
\* dealer upcard (0 for None).
ChooseDecision ==
    /\ arg = NoArg
    /\ arg' = [fn |-> "choose_decision"]
    /\ res' = [fn |-> "choose_decision",
               decision |-> [up \in 0..NumRanks |->
                               choose_decision(player_ranks, up, counts)]]
    /\ UNCHANGED <<strategyRest, counts, player_ranks, dealer_up_rank>>

StrategyNext == TakeRank \/ BustProbability \/ ChooseDecision

StrategySpec == StrategyInit /\ [][StrategyNext]_vars

(***************************************************************************)
(* CodecSpec: the payload codecs of common/protocol.py, packing any valid  *)
(* fields onto a wire and unpacking what the wire carries.                 *)
(***************************************************************************)
\* The variables the codecs do not touch.
codecRest == <<engineVars, serverVars, s_sock, c_sock, log, clientVars, seen>>

CodecInit == NoEngine /\ SessionIdle /\ NoCalls

\* sendall(pack_server_payload(result, rank, suit))
PackServerPayload ==
    /\ s2c = <<>>
    /\ c2s = <<>>
    /\ \E result \in RESULT_NOT_OVER..RESULT_WIN, rank \in Ranks, suit \in Suits :
          /\ arg' = [fn |-> "pack_server_payload",
                     result |-> result, rank |-> rank, suit |-> suit]
          /\ res' = [fn |-> "pack_server_payload",
                     data |-> pack_server_payload(result, rank, suit)]
          /\ s2c' = pack_server_payload(result, rank, suit)
    /\ UNCHANGED <<codecRest, c2s>>

\* unpack_server_payload(recv_exact(sock, SERVER_PAYLOAD_MESSAGE_BYTES))
UnpackServerPayload ==
    /\ CanRecv(s2c, SERVER_PAYLOAD_MESSAGE_BYTES)
    /\ res' = [fn |-> "unpack_server_payload",
               value |-> unpack_server_payload(Take(s2c, SERVER_PAYLOAD_MESSAGE_BYTES))]
    /\ s2c' = Drop(s2c, SERVER_PAYLOAD_MESSAGE_BYTES)
    /\ UNCHANGED <<codecRest, c2s, arg>>

\* sendall(pack_client_payload_decision(decision))
PackDecision ==
    /\ s2c = <<>>
    /\ c2s = <<>>
    /\ \E decision \in Decisions :
          /\ arg' = [fn |-> "pack_client_payload_decision", decision |-> decision]
          /\ res' = [fn |-> "pack_client_payload_decision",
                     data |-> pack_client_payload_decision(decision)]
          /\ c2s' = pack_client_payload_decision(decision)
    /\ UNCHANGED <<codecRest, s2c>>

\* unpack_client_payload_decision(recv_exact(sock, CLIENT_PAYLOAD_MESSAGE_BYTES))
UnpackDecision ==
    /\ CanRecv(c2s, CLIENT_PAYLOAD_MESSAGE_BYTES)
    /\ res' = [fn |-> "unpack_client_payload_decision",
               value |-> unpack_client_payload_decision(
                             Take(c2s, CLIENT_PAYLOAD_MESSAGE_BYTES))]
    /\ c2s' = Drop(c2s, CLIENT_PAYLOAD_MESSAGE_BYTES)
    /\ UNCHANGED <<codecRest, s2c, arg>>

CodecNext == PackServerPayload \/ UnpackServerPayload \/ PackDecision \/ UnpackDecision

CodecSpec == CodecInit /\ [][CodecNext]_vars

(***************************************************************************)
(* Claims about the round engine (checked under Spec).                     *)
(***************************************************************************)
Total(hand) == hand_value(hand)[1]

Last(s) == s[Len(s)]

\* The final-outcome rule, on the two totals.
OutcomeRule(p_total, d_total) ==
    CASE p_total > 21 -> RESULT_LOSS
      [] p_total <= 21 /\ d_total > 21 -> RESULT_WIN
      [] p_total <= 21 /\ d_total <= 21 /\ p_total > d_total -> RESULT_WIN
      [] p_total <= 21 /\ d_total <= 21 /\ p_total < d_total -> RESULT_LOSS
      [] p_total <= 21 /\ d_total <= 21 /\ p_total = d_total -> RESULT_TIE

Applied(decision, ph) ==
    /\ call = [op |-> "apply_decision", decision |-> decision]
    /\ pre.phase = ph

AppliedIn(ph) == call.op = "apply_decision" /\ pre.phase = ph

\* The invocation drew exactly one card from the deck it found: the last of
\* the list, or the last of a fresh 52-card order when the list was empty.
DrewOne(c) ==
    IF pre.cards # <<>>
    THEN c = Last(pre.cards) /\ cards = SubSeq(pre.cards, 1, Len(pre.cards) - 1)
    ELSE /\ Len(cards) = DeckSize - 1
         /\ \A i \in 1..Len(cards) : cards[i] # c

\* C1, as stated: apply_decision("Stand") in PlayerTurn returns exactly one
\* pair, (NOT_OVER, dealer's second card), and leaves the phase at DealerTurn.
C1_StandReturnsOnlyReveal ==
    Applied("Stand", "PLAYER") =>
        /\ out = << <<RESULT_NOT_OVER, pre.dealer[2]>> >>
        /\ phase = "DEALER"

\* C1, amended: apply_decision("Stand") in PlayerTurn returns exactly two
\* pairs.  The first is (NOT_OVER, dealer's second card).  The second is the
\* dealer's first action, taken in the same invocation: when the dealer's two
\* initial cards total 17 or more it is (final outcome, dealer's second card)
\* and the phase is Over; otherwise it is (NOT_OVER, the one card drawn into
\* the dealer's hand) and the phase is DealerTurn.
C1_StandRevealsAndActs ==
    Applied("Stand", "PLAYER") =>
        /\ Len(out) = 2
        /\ out[1] = <<RESULT_NOT_OVER, pre.dealer[2]>>
        /\ player = pre.player
        /\ IF Total(pre.dealer) >= 17
           THEN /\ phase = "OVER"
                /\ dealer = pre.dealer
                /\ cards = pre.cards
                /\ out[2] = <<OutcomeRule(Total(player), Total(dealer)), pre.dealer[2]>>
           ELSE /\ phase = "DEALER"
                /\ Len(dealer) = 3
                /\ SubSeq(dealer, 1, 2) = pre.dealer
                /\ DrewOne(dealer[3])
                /\ out[2] = <<RESULT_NOT_OVER, dealer[3]>>

\* Stand was applied in PlayerTurn while the dealer's two cards total >= 17.
C1_Witness == Applied("Stand", "PLAYER") /\ Total(pre.dealer) >= 17

\* C3: every result code other than NOT_OVER that apply_decision returns is
\* the final-outcome rule applied to the two hands' totals at that moment.
C3_EmittedOutcomeFollowsRule ==
    call.op = "apply_decision" =>
        \A i \in 1..Len(out) :
            out[i][1] # RESULT_NOT_OVER =>
                out[i][1] = OutcomeRule(Total(player), Total(dealer))

\* A TIE was emitted.
C3_Witness ==
    /\ call.op = "apply_decision"
    /\ out # <<>>
    /\ Last(out)[1] = RESULT_TIE

\* C4: while the player's total exceeds 21 the round is Over with outcome
\* LOSS, every invocation returns LOSS, and the dealer's hand is the two
\* cards it held before the invocation: the dealer never draws.
C4_BustIsLossAndDealerNeverDraws ==
    Total(player) > 21 =>
        /\ phase = "OVER"
        /\ outcome = RESULT_LOSS
        /\ call.op = "apply_decision"
        /\ Len(out) = 1 /\ out[1][1] = RESULT_LOSS
        /\ Len(dealer) = 2
        /\ dealer = pre.dealer

\* The player has bust and a Stand was applied afterwards.
C4_Witness ==
    /\ Total(player) > 21
    /\ Applied("Stand", "OVER")

\* C5: an invocation that starts in DealerTurn performs exactly one dealer
\* action: with a dealer total of 17 or more (soft 17 included) it draws
\* nothing, ends the round and returns one pair (final outcome, dealer's last
\* card); otherwise it draws one card into the dealer's hand, returns one pair
\* (NOT_OVER, that card) and stays in DealerTurn.
C5_OneDealerActionPerInvocation ==
    AppliedIn("DEALER") =>
        /\ Len(out) = 1
        /\ player = pre.player
        /\ IF Total(pre.dealer) >= 17
           THEN /\ phase = "OVER"
                /\ dealer = pre.dealer
                /\ cards = pre.cards
                /\ out[1] = <<OutcomeRule(Total(player), Total(dealer)), Last(dealer)>>
           ELSE /\ phase = "DEALER"
                /\ Len(dealer) = Len(pre.dealer) + 1
                /\ SubSeq(dealer, 1, Len(pre.dealer)) = pre.dealer
                /\ DrewOne(Last(dealer))
                /\ out[1] = <<RESULT_NOT_OVER, Last(dealer)>>

\* An invocation started in DealerTurn with the dealer on a soft 17.
C5_Witness == AppliedIn("DEALER") /\ hand_value(pre.dealer) = <<17, TRUE>>

\* C7: apply_decision("Hittt") in PlayerTurn draws exactly one card into the
\* player's hand and leaves the dealer's hand unchanged; on a total above 21
\* the phase becomes Over and the single pair is (LOSS, that card), otherwise
\* the phase stays PlayerTurn and the single pair is (NOT_OVER, that card).
C7_HitDrawsOneCard ==
    Applied("Hittt", "PLAYER") =>
        /\ Len(player) = Len(pre.player) + 1
        /\ SubSeq(player, 1, Len(pre.player)) = pre.player
        /\ DrewOne(Last(player))
        /\ dealer = pre.dealer
        /\ IF Total(player) > 21
           THEN phase = "OVER" /\ out = << <<RESULT_LOSS, Last(player)>> >>
           ELSE phase = "PLAYER" /\ out = << <<RESULT_NOT_OVER, Last(player)>> >>

\* A hit took the player to exactly 21 (the round goes on).
C7_Witness == Applied("Hittt", "PLAYER") /\ Total(player) = 21

\* C8: an invocation that starts in Over, with either decision, leaves the
\* phase, both hands and the deck unchanged and returns exactly one pair,
\* whose result code is the one that ended the round.
C8_OverIsIdempotent ==
    AppliedIn("OVER") =>
        /\ phase = "OVER"
        /\ player = pre.player
        /\ dealer = pre.dealer
        /\ cards = pre.cards
        /\ Len(out) = 1
        /\ out[1][1] = outcome
        /\ outcome # RESULT_NOT_OVER

\* Hittt was applied to a round that the player's bust had ended.
C8_Witness == Applied("Hittt", "OVER") /\ Total(player) > 21

(***************************************************************************)
(* Claims about the session (checked under SessionSpec).                   *)
(***************************************************************************)
\* The result code of a payload, as the client decodes it.
Result(msg) == unpack_server_payload(msg).result

IsFinal(e) == Result(e.msg) # RESULT_NOT_OVER

\* The payloads the server sent in round r, in order.
RoundLog(r) == SelectSeq(log, LAMBDA e : e.round = r)

Finals(r) == {i \in 1..Len(log) : log[i].round = r /\ IsFinal(log[i])}

\* C2, as stated: no session failure (a peer that closes in mid-read, a
\* failing send, a malformed message) ends the server process.
C2_ServerSurvivesSessionFailure == srv_pc # "terminated"

\* C6: start() takes the round from Init to PlayerTurn by drawing four cards
\* from the deck in the order player-1, player-2, dealer-1, dealer-2, and
\* the session sends exactly three payloads for it, player-1, player-2,
\* dealer-1 in that order, each tagged NOT_OVER; the dealer's second card is
\* not among them.
C6_DealOrderAndInitialPayloads ==
    call.op = "start" =>
        LET n == Len(pre.cards)
            sent == RoundLog(round_i)
        IN  /\ pre.phase = "INIT"
            /\ phase = "PLAYER"
            /\ n >= 4
            /\ player = <<pre.cards[n], pre.cards[n - 1]>>
            /\ dealer = <<pre.cards[n - 2], pre.cards[n - 3]>>
            /\ cards = SubSeq(pre.cards, 1, n - 4)
            /\ Len(sent) = 3
            /\ sent[1].msg = pack_server_payload(RESULT_NOT_OVER, player[1].rank, player[1].suit)
            /\ sent[2].msg = pack_server_payload(RESULT_NOT_OVER, player[2].rank, player[2].suit)
            /\ sent[3].msg = pack_server_payload(RESULT_NOT_OVER, dealer[1].rank, dealer[1].suit)
            /\ \A i \in 1..3 :
                  LET m == unpack_server_payload(sent[i].msg)
                  IN  Card(m.rank, m.suit) # dealer[2]

\* The second round of a session has been dealt.
C6_Witness == call.op = "start" /\ round_i = 1 /\ srv_pc = "loop"

\* C9: in every round the server sends exactly one payload whose result is
\* not NOT_OVER; it is the last payload of the round (no engine step returns
\* a pair after such a pair), and the next round's first payload is sent
\* only after it.
C9_OneFinalPayloadPerRound ==
    /\ log # <<>> => log[1].round = 0
    /\ \A i \in 1..(Len(log) - 1) :
          log[i + 1].round = IF IsFinal(log[i]) THEN log[i].round + 1 ELSE log[i].round
    /\ srv_pc \in {"deal", "loop", "closing"} =>
          \A r \in 0..(round_i - 1) : Cardinality(Finals(r)) = 1
    /\ srv_pc = "deal" =>
          IF round_i = 0 THEN log = <<>>
          ELSE IsFinal(Last(log)) /\ Last(log).round = round_i - 1
    /\ srv_pc = "loop" =>
          /\ Len(RoundLog(round_i)) >= 3
          /\ Last(log).round = round_i
          /\ Finals(round_i) = {}
    /\ (srv_pc = "closing" /\ srv_rounds > 0 /\ round_i = srv_rounds) =>
          IsFinal(Last(log)) /\ Last(log).round = srv_rounds - 1
    /\ call.op = "apply_decision" =>
          \A i \in 1..(Len(out) - 1) : out[i][1] = RESULT_NOT_OVER

\* A session of two rounds has sent the final payload of its second round.
C9_Witness ==
    /\ srv_pc = "closing"
    /\ srv_rounds = 2
    /\ round_i = 2
    /\ Cardinality(Finals(0)) = 1
    /\ Cardinality(Finals(1)) = 1

\* The peer is this client, with its end of the connection open.
PeerIsClient == c_sock = "open" /\ cli_pc # "foreign"

\* The server is blocked reading a ClientDecision.
SrvAwaitsDecision ==
    /\ srv_pc = "loop"
    /\ srv_player_turn
    /\ ~CanRecv(c2s, CLIENT_PAYLOAD_MESSAGE_BYTES)

\* The client is blocked reading a ServerPayload from a connection the
\* server has not closed.
CliAwaitsPayload ==
    /\ cli_pc \in {"initial", "recv"}
    /\ ~CanRecv(s2c, SERVER_PAYLOAD_MESSAGE_BYTES)
    /\ s_sock # "closed"

\* The client has played all its rounds and closed the connection.
ClientDone == cli_pc = "idle" /\ cli_rounds > 0 /\ cli_round_i = cli_rounds

IsPrefix(a, b) == Len(a) <= Len(b) /\ a = SubSeq(b, 1, Len(a))

RequestRejected ==
    /\ srv_req = Invalid
    /\ s_sock # "none"
    /\ srv_pc \in {"closing", "accept"}

\* C11: when the first message on an accepted connection does not decode
\* as a valid Request, the server sends no byte on that connection, creates
\* no deck and no round, and its next step closes the connection and
\* returns to the broadcast/accept loop.
C11_InvalidRequestIsDropped ==
    /\ [](RequestRejected =>
            /\ s2c = <<>>
            /\ log = <<>>
            /\ NoEngine
            /\ srv_rounds = 0 /\ round_i = 0
            /\ srv_pc = "closing" <=> s_sock = "open"
            /\ srv_pc = "accept" <=> s_sock = "closed")
    /\ [][(srv_req' = Invalid /\ srv_pc = "request" /\ srv_pc' \notin {"request", "stopped"})
            => srv_pc' = "closing" /\ s_sock' = "open"]_vars
    /\ [][(srv_req = Invalid /\ srv_pc = "closing" /\ srv_pc' \notin {"closing", "stopped"})
            => srv_pc' = "accept" /\ s_sock' = "closed" /\ s2c' = <<>>]_vars

\* The server is back in its accept loop after closing a connection whose
\* first message was no Request.
C11_Witness ==
    /\ RequestRejected
    /\ srv_pc = "accept"
    /\ s_sock = "closed"
    /\ c2s = <<>>

\* The server reads ten bytes where a ClientDecision is due.
ReadsDecision ==
    /\ srv_pc = "loop"
    /\ srv_player_turn
    /\ CanRecv(c2s, CLIENT_PAYLOAD_MESSAGE_BYTES)
    /\ c2s' = Drop(c2s, CLIENT_PAYLOAD_MESSAGE_BYTES)

\* play_session_blackjack has returned before the end of its last round.
SessionAborted ==
    /\ srv_pc = "closing"
    /\ srv_req.ok
    /\ round_i < srv_rounds

\* C12: when the bytes read as a ClientDecision do not decode (wrong
\* cookie, wrong tag, decision other than "Hittt" or "Stand"), the server
\* does not step the round engine with them and sends nothing: it leaves
\* the session, and its next step closes the connection and returns to the
\* broadcast/accept loop; no payload is sent after that on the connection.
C12_InvalidDecisionEndsSession ==
    /\ [][(ReadsDecision
           /\ ~unpack_client_payload_decision(Take(c2s, CLIENT_PAYLOAD_MESSAGE_BYTES)).ok)
            => /\ srv_pc' = "closing"
               /\ s_sock' = "open"
               /\ UNCHANGED <<engineVars, s2c, log, round_i>>]_vars
    /\ [](SessionAborted =>
            /\ s_sock = "open"
            /\ phase = "PLAYER"
            /\ call.op \in {"start", "apply_decision"}
            /\ Finals(round_i) = {})
    /\ [][(SessionAborted /\ srv_pc' \notin {"closing", "stopped"})
            => srv_pc' = "accept" /\ s_sock' = "closed" /\ UNCHANGED <<s2c, log>>]_vars
    /\ [][(srv_pc \in {"closing", "accept", "request"} /\ log' # log) => log' = <<>>]_vars

\* The session was left in the second round, after a hit, on ten bytes that
\* are no decision.
C12_Witness ==
    /\ SessionAborted
    /\ round_i = 1
    /\ call = [op |-> "apply_decision", decision |-> "Hittt"]
    /\ cli_pc = "foreign"
    /\ c2s = <<>>

(***************************************************************************)
(* Claims about the deck (checked under Spec, where the rounds played on   *)
(* one deck exhaust it).                                                   *)
(***************************************************************************)
PopulationSet == {Population[j] : j \in 1..DeckSize}

Range(seq) == {seq[i] : i \in 1..Len(seq)}

\* C13: the deck's remaining cards are pairwise distinct members of the
\* 52-card population, and the number of remaining cards plus the number
\* of cards drawn since the last reset is 52 (the remaining and the drawn
\* cards partition the population).
C13_DeckPartitionsPopulation ==
    /\ Range(cards) \subseteq PopulationSet
    /\ Cardinality(Range(cards)) = Len(cards)
    /\ Len(cards) + Cardinality(drawn) = DeckSize
    /\ Range(cards) \cap drawn = {}
    /\ Range(cards) \cup drawn = PopulationSet

\* The deck was reset in the course of a round and has been drawn from
\* since.
C13_Witness ==
    /\ call.op = "apply_decision"
    /\ pre.cards = <<>>
    /\ Len(cards) = DeckSize - 1
    /\ Cardinality(drawn) = 1
    /\ Len(player) + Len(dealer) >= 5

\* C14: every draw returns a card.  While the deck holds a card, a draw
\* pops its last card and nothing else changes; a draw on the empty deck
\* refills it with a permutation of the whole population and pops the last
\* card of that, leaving 51.  The deck is reset at no other moment: not by
\* a new round, not by an invocation that draws nothing.
C14_DrawRefillsOnlyWhenEmpty ==
    LET m == Len(pre.cards)
        seq == NewCards(pre, game)
        n == Len(seq)
    IN  /\ call.op = "new" => n = 0
        /\ call.op = "start" => n = 4
        /\ call.op = "apply_decision" => n \in {0, 1}
        /\ call.op # "none" =>
              /\ \A i \in 1..n : seq[i] \in PopulationSet
              /\ IF n <= m
                 THEN /\ cards = SubSeq(pre.cards, 1, m - n)
                      /\ \A i \in 1..n : seq[i] = pre.cards[m - i + 1]
                 ELSE /\ \A i \in 1..m : seq[i] = pre.cards[m - i + 1]
                      /\ Len(cards) = DeckSize - (n - m)
                      /\ Cardinality(Range(cards)) = Len(cards)
                      /\ Range(cards) \cup {seq[i] : i \in (m + 1)..n} = PopulationSet

\* A deal found fewer than four cards in the deck: it took them, refilled
\* the deck and drew the rest from the new deck.
C14_Witness ==
    /\ call.op = "start"
    /\ Len(pre.cards) \in 1..3
    /\ Len(cards) = DeckSize - (4 - Len(pre.cards))

(***************************************************************************)
(* Claims about the client's DeckCounter (checked under CounterSpec).      *)
(***************************************************************************)
\* C15: under any calls of remove_seen every rank's count stays in 0..4
\* and is 4 less the number of calls for the rank, floored at 0: four
\* calls bring it from 4 to 0 and a fifth leaves it at 0.  A call never
\* increases a count and leaves the counts of the other ranks unchanged.
C15_CountsFloorAtZero ==
    /\ \A r \in Ranks :
          /\ counts[r] \in 0..NumSuits
          /\ counts[r] = IF seen[r] >= NumSuits THEN 0 ELSE NumSuits - seen[r]
    /\ arg.fn = "remove_seen" =>
          /\ \A r \in Ranks :
                /\ counts[r] <= arg.counts[r]
                /\ r # arg.rank => counts[r] = arg.counts[r]
          /\ counts[arg.rank] =
                IF arg.counts[arg.rank] > 0 THEN arg.counts[arg.rank] - 1 ELSE 0

\* remove_seen was called a fifth time for one rank.
C15_Witness ==
    /\ arg.fn = "remove_seen"
    /\ seen[arg.rank] = NumSuits + 1
    /\ arg.counts[arg.rank] = 0
    /\ counts[arg.rank] = 0

(***************************************************************************)
(* Claims about the client's strategy (checked under StrategySpec).        *)
(***************************************************************************)
\* The player's total and softness under the ace-soft rule.
HandTotal == strategy_hand_value(player_ranks)[1]

HandSoft == strategy_hand_value(player_ranks)[2]

\* The ranks whose addition to the player's hand gives a total above 21.
BustRanks == {r \in Ranks : strategy_hand_value(Append(player_ranks, r))[1] > 21}

RECURSIVE SumOver(_, _)
SumOver(S, f) ==
    IF S = {} THEN 0
    ELSE LET x == CHOOSE y \in S : TRUE
         IN  f[x] + SumOver(S \ {x}, f)

\* B and T of the bust probability: the remaining cards that bust the hand,
\* and all the remaining cards.
BustCards == SumOver(BustRanks, counts)

RemainingCards == SumOver(Ranks, counts)

CalledBustProbability == res.fn = "bust_probability_if_hit"

\* C16, as stated: with every rank at count 4 and a hand whose total is
\* 21, the bust probability is 1.0.
C16_Total21AlwaysBusts ==
    (CalledBustProbability /\ counts = DeckCounter /\ HandTotal = 21)
        => res.p[1] = res.p[2]

\* C16, amended: with every rank at count 4, the bust probability of a
\* hard 21 is 1.0 (all 52 cards counted as busting) and that of a soft 21
\* is 0.0 (no card counted: the Ace falls back to 1).
C16_Hard21AlwaysBusts ==
    (CalledBustProbability /\ counts = DeckCounter /\ HandTotal = 21)
        => res.p = IF HandSoft THEN <<0, DeckSize>> ELSE <<DeckSize, DeckSize>>

\* The bust probability of a hard 21 was computed on the full counter.
C16_Witness ==
    /\ CalledBustProbability
    /\ counts = DeckCounter
    /\ HandTotal = 21
    /\ ~HandSoft
    /\ res.p = <<DeckSize, DeckSize>>

\* C17: bust_probability_if_hit returns B / T, T the sum of the 13
\* remaining counts and B the sum of the counts of exactly the ranks whose
\* addition to the hand gives a total above 21 under the ace-soft rule; it
\* returns 0 when T is 0; the result lies between 0 and 1.
C17_BustProbabilityIsBOverT ==
    CalledBustProbability =>
        /\ res.p = IF RemainingCards = 0 THEN <<0, 1>>
                   ELSE <<BustCards, RemainingCards>>
        /\ 0 <= res.p[1]
        /\ res.p[1] <= res.p[2]
        /\ res.p[2] > 0

\* The probability of a hand that some remaining ranks bust and others do
\* not, one of them an Ace that keeps the hand at 21 or less.
C17_Witness ==
    /\ CalledBustProbability
    /\ Len(player_ranks) = 3
    /\ 0 < res.p[1]
    /\ res.p[1] < res.p[2]
    /\ 1 \notin BustRanks
    /\ counts[1] > 0
    /\ \E r \in Ranks : counts[r] = 0 /\ r \in BustRanks

\* The threshold of choose_decision in hundredths, by dealer upcard.
Threshold(up) ==
    IF up = 0 THEN 45
    ELSE IF up \in {1, 7, 8, 9, 10, 11, 12, 13} THEN 55
    ELSE 40

\* p <= threshold, p being B / T (0 when T is 0).
WithinThreshold(up) ==
    RemainingCards = 0 \/ 100 * BustCards <= Threshold(up) * RemainingCards

FaceValue(rank) == IF rank = 1 THEN 1 ELSE IF rank >= 11 THEN 10 ELSE rank

RanksOf(hand) == [i \in 1..Len(hand) |-> hand[i].rank]

HardSum(hand) == SumTo([i \in 1..Len(hand) |-> FaceValue(hand[i].rank)], Len(hand))

NumAces(hand) == Cardinality({i \in 1..Len(hand) : hand[i].rank = 1})

\* C18: hand_value returns the sum of the card values (Ace 1, 2 to 10 face
\* value, J/Q/K 10) plus 10 exactly when the hand holds an Ace and the sum
\* plus 10 is at most 21; is_soft is true exactly in that case; never more
\* than one Ace is promoted; the server's and the client's hand_value
\* agree on the same ranks.
C18_HandValueAceSoftRule ==
    \A hand \in {player, dealer} :
        LET promoted == NumAces(hand) > 0 /\ HardSum(hand) + 10 <= 21
            hv == hand_value(hand)
        IN  /\ hv[1] = HardSum(hand) + (IF promoted THEN 10 ELSE 0)
            /\ hv[2] = promoted
            /\ hv[1] - HardSum(hand) \in {0, 10}
            /\ strategy_hand_value(RanksOf(hand)) = hv

\* One hand holds two Aces, one of them counted as 11, and the other hand
\* holds an Ace counted as 1.
C18_Witness ==
    \E h1, h2 \in {player, dealer} :
        /\ NumAces(h1) >= 2
        /\ hand_value(h1) = <<HardSum(h1) + 10, TRUE>>
        /\ NumAces(h2) >= 1
        /\ hand_value(h2) = <<HardSum(h2), FALSE>>

(***************************************************************************)
(* Claims about the wire codec (checked under CodecSpec).                  *)
(***************************************************************************)
\* C20: for every result in 0..3, rank in 1..13 and suit in 0..3,
\* unpacking the packed server payload returns exactly those three values,
\* and for both decision literals unpacking the packed decision returns the
\* literal; the packed messages are 9 and 10 bytes long.
C20_PayloadRoundTrip ==
    /\ res.fn = "pack_server_payload" =>
          /\ Len(res.data) = 9
          /\ s2c = res.data
    /\ res.fn = "unpack_server_payload" =>
          /\ arg.fn = "pack_server_payload"
          /\ res.value = [ok |-> TRUE, result |-> arg.result,
                          rank |-> arg.rank, suit |-> arg.suit]
    /\ res.fn = "pack_client_payload_decision" =>
          /\ Len(res.data) = 10
          /\ c2s = res.data
    /\ res.fn = "unpack_client_payload_decision" =>
          /\ arg.fn = "pack_client_payload_decision"
          /\ res.value = [ok |-> TRUE, decision |-> arg.decision]

\* A payload with the largest value of each field was packed and unpacked.
C20_Witness ==
    /\ res.fn = "unpack_server_payload"
    /\ res.value.ok
    /\ arg.result = RESULT_WIN
    /\ arg.rank = NumRanks
    /\ arg.suit = NumSuits - 1
    /\ s2c = <<>>

(***************************************************************************)
(* common/protocol.py: the Offer codec, and the four decoders as one       *)
(* function of the message kind.                                           *)
(***************************************************************************)
MSG_TYPE_OFFER == 2
OFFER_MESSAGE_BYTES == 39

\* "RanServer".encode("utf-8")
ServerNameUtf8 == <<82, 97, 110, 83, 101, 114, 118, 101, 114>>

\* pack_offer: struct.pack("!IBH32s", cookie, type, port, name)
pack_offer(server_tcp_port, name) ==
    CookieBytes \o <<MSG_TYPE_OFFER, server_tcp_port \div 256, server_tcp_port % 256>>
        \o encode_fixed_name_32(name)

\* A variant of unpack_offer that accepts every message type.
unpack_offer_any_type(data) ==
    IF Len(data) # OFFER_MESSAGE_BYTES THEN Invalid
    ELSE IF SubSeq(data, 1, 4) # CookieBytes THEN Invalid
    ELSE [ok |-> TRUE, server_tcp_port |-> data[6] * 256 + data[7],
          server_name |-> decode_fixed_name_32(SubSeq(data, 8, 39))]

\* unpack_offer
unpack_offer(data) ==
    IF Len(data) # OFFER_MESSAGE_BYTES THEN Invalid
    ELSE IF SubSeq(data, 1, 4) # CookieBytes THEN Invalid
    ELSE IF data[5] # MSG_TYPE_OFFER THEN Invalid
    ELSE [ok |-> TRUE, server_tcp_port |-> data[6] * 256 + data[7],
          server_name |-> decode_fixed_name_32(SubSeq(data, 8, 39))]

Kinds == {"offer", "request", "decision", "payload"}

\* The decoder of each message kind.
unpack(kind, data) ==
    CASE kind = "offer" -> unpack_offer(data)
      [] kind = "request" -> unpack_request(data)
      [] kind = "decision" -> unpack_client_payload_decision(data)
      [] kind = "payload" -> unpack_server_payload(data)

(***************************************************************************)
(* DecodeSpec: a buffer is built by one of the pack functions, altered by  *)
(* at most MaxEdits edits (one cookie bit flipped, the type byte or a      *)
(* field byte overwritten, the last byte cut off, a byte appended), and    *)
(* handed to one of the four decoders.                                     *)
(***************************************************************************)
MaxEdits == 2

\* The tcp ports packed: the smallest, an ephemeral one, the largest.
OfferPorts == {0, 50000, 65535}

\* The round counts packed: 0, 1 and the largest byte.
RequestRounds == {0, 1, 255}

\* The values a type byte is overwritten with.
TypeBytes == {MSG_TYPE_OFFER, MSG_TYPE_REQUEST, MSG_TYPE_PAYLOAD, 5}

\* The values a field byte is overwritten with.
FieldBytes == {0, 4, 14, 255}

\* Everything the pack functions build from fields at the ends of their ranges.
PackedMessages ==
    {pack_offer(p, ServerNameUtf8) : p \in OfferPorts}
    \cup {pack_request(n, TeamNameUtf8) : n \in RequestRounds}
    \cup {pack_client_payload_decision(d) : d \in Decisions}
    \cup {pack_server_payload(r, k, s) :
              r \in {RESULT_NOT_OVER, RESULT_WIN}, k \in {1, NumRanks},
              s \in {0, NumSuits - 1}}

\* The variables the decoders do not touch.
decodeRest == <<engineVars, sessionVars, seen>>

DecodeInit == NoEngine /\ SessionIdle /\ NoCalls

\* data = pack_*(...)
BuildBuffer ==
    /\ arg = NoArg
    /\ \E data \in PackedMessages :
          arg' = [fn |-> "buffer", data |-> data, edits |-> 0]
    /\ UNCHANGED <<decodeRest, res>>

\* The buffer can still be altered.
CanEdit ==
    /\ arg.fn = "buffer"
    /\ arg.edits < MaxEdits
    /\ res = NoArg

Edited(data) ==
    /\ arg' = [arg EXCEPT !.data = data, !.edits = arg.edits + 1]
    /\ UNCHANGED <<decodeRest, res>>

\* The lowest bit of one of the first four bytes is flipped.
FlipCookieBit ==
    /\ CanEdit
    /\ \E i \in 1..4 :
          /\ i <= Len(arg.data)
          /\ Edited([arg.data EXCEPT ![i] = IF @ % 2 = 0 THEN @ + 1 ELSE @ - 1])

\* The type byte is overwritten.
SetType ==
    /\ CanEdit
    /\ Len(arg.data) >= 5
    /\ \E t \in TypeBytes : Edited([arg.data EXCEPT ![5] = t])

\* One of the bytes 6..9 is overwritten.
SetField ==
    /\ CanEdit
    /\ \E i \in 6..9, b \in FieldBytes :
          /\ i <= Len(arg.data)
          /\ Edited([arg.data EXCEPT ![i] = b])

\* The last byte is cut off.
Truncate ==
    /\ CanEdit
    /\ Len(arg.data) > 0
    /\ Edited(SubSeq(arg.data, 1, Len(arg.data) - 1))

\* A zero byte is appended.
Extend ==
    /\ CanEdit
    /\ Edited(Append(arg.data, 0))

\* unpack_*(data)
Decode ==
    /\ arg.fn = "buffer"
    /\ res = NoArg
    /\ \E kind \in Kinds :
          res' = [fn |-> "unpack", kind |-> kind, value |-> unpack(kind, arg.data)]
    /\ UNCHANGED <<decodeRest, arg>>

DecodeNext ==
    \/ BuildBuffer
    \/ FlipCookieBit
    \/ SetType
    \/ SetField
    \/ Truncate
    \/ Extend
    \/ Decode

DecodeSpec == DecodeInit /\ [][DecodeNext]_vars

(***************************************************************************)
(* Claims about the decoders (checked under DecodeSpec).                   *)
(***************************************************************************)
\* The fixed length and the type byte of each message kind.
KindLength(kind) ==
    CASE kind = "offer" -> 39 [] kind = "request" -> 38
      [] kind = "decision" -> 10 [] kind = "payload" -> 9

KindType(kind) ==
    CASE kind = "offer" -> 2 [] kind = "request" -> 3
      [] kind = "decision" -> 4 [] kind = "payload" -> 4

\* The fields of the buffer are in range for the kind.
FieldsInRange(kind, data) ==
    CASE kind = "payload" ->
            /\ data[6] \in 0..3
            /\ data[7] * 256 + data[8] \in 1..13
            /\ data[9] \in 0..3
      [] kind = "decision" ->
            SubSeq(data, 6, 10) \in {<<72, 105, 116, 116, 116>>, <<83, 116, 97, 110, 100>>}
      [] OTHER -> TRUE

\* The buffer passes every check of the kind.
PassesChecks(kind, data) ==
    /\ Len(data) = KindLength(kind)
    /\ \A i \in 1..4 : data[i] = CookieBytes[i]
    /\ data[5] = KindType(kind)
    /\ FieldsInRange(kind, data)

\* C21: for each of the four message kinds, the decoder returns the invalid
\* result, and nothing else, for every buffer of the wrong length, with a
\* wrong cookie byte, with a wrong type byte or with a field out of range,
\* and returns a valid result for every buffer that passes these checks.
C21_DecodeRejectsExactlyBadBuffers ==
    res.fn = "unpack" =>
        /\ PassesChecks(res.kind, arg.data) => res.value.ok
        /\ ~PassesChecks(res.kind, arg.data) => res.value = Invalid

\* A server payload of the right length, cookie and type whose rank is 14
\* was rejected.
C21_Witness ==
    /\ res.fn = "unpack"
    /\ res.kind = "payload"
    /\ res.value = Invalid
    /\ Len(arg.data) = 9
    /\ SubSeq(arg.data, 1, 5) = CookieBytes \o <<4>>
    /\ arg.data[7] * 256 + arg.data[8] = 14

(***************************************************************************)
(* RecvSpec: common/net_utils.py, recv_exact one loop iteration at a time. *)
(* The peer writes the bytes 1, 2, 3, ... one by one into c2s and may      *)
(* close; each sock.recv(k) takes between 1 and k of the bytes waiting.    *)
(* arg holds the call in progress (n, the bytes accumulated in data, the   *)
(* number of bytes earlier calls returned), res its outcome.               *)
(***************************************************************************)
\* The bytes the peer writes at most.
MaxStream == 5

\* The largest n of a call.
MaxRecv == 3

\* The variables recv_exact does not touch.
recvRest ==
    <<engineVars, serverVars, s2c, log, clientVars, seen>>

RecvInit == NoEngine /\ SessionIdle /\ NoCalls

\* The connection is made.
RecvConnect ==
    /\ s_sock = "none"
    /\ s_sock' = "open"
    /\ c_sock' = "open"
    /\ UNCHANGED <<recvRest, c2s, arg, res>>

\* The bytes earlier calls returned or the running call holds.
Consumed == IF arg = NoArg THEN 0 ELSE arg.before + Len(arg.data)

\* The bytes the peer has written.
Written == Consumed + Len(c2s)

\* The peer writes its next byte.
PeerWrites ==
    /\ c_sock = "open"
    /\ Written < MaxStream
    /\ c2s' = Append(c2s, Written + 1)
    /\ UNCHANGED <<recvRest, s_sock, c_sock, arg, res>>

\* The peer closes its end.
PeerShutdown ==
    /\ c_sock = "open"
    /\ c_sock' = "closed"
    /\ UNCHANGED <<recvRest, s_sock, c2s, arg, res>>

\* A call to recv_exact is running.
Receiving == arg.fn = "recv_exact" /\ res = NoArg

\* How the last call to recv_exact ended, "none" if none has.
Outcome == IF "outcome" \in DOMAIN res THEN res.outcome ELSE "none"

\* recv_exact(sock, n), line 7: data = bytearray()
CallRecvExact ==
    /\ s_sock = "open"
    /\ ~Receiving
    /\ Outcome # "raised"
    /\ \E n \in 1..MaxRecv :
          arg' = [fn |-> "recv_exact", n |-> n, data |-> <<>>, before |-> Consumed]
    /\ res' = NoArg
    /\ UNCHANGED <<recvRest, s_sock, c_sock, c2s>>

\* A variant of line 9 that asks for n bytes in every iteration.
recv_size_whole(n, have) == n

\* line 9: the size passed to sock.recv
recv_size(n, have) == n - have

\* lines 8-13, one iteration in which sock.recv returns a chunk of 1 or more
\* bytes; the call returns when the data is complete.
RecvChunk ==
    /\ Receiving
    /\ Len(arg.data) < arg.n
    /\ \E m \in 1..recv_size(arg.n, Len(arg.data)) :
          /\ m <= Len(c2s)
          /\ LET data == arg.data \o Take(c2s, m)
             IN  /\ arg' = [arg EXCEPT !.data = data]
                 /\ res' = IF Len(data) < arg.n THEN NoArg
                           ELSE [fn |-> "recv_exact", outcome |-> "returned",
                                 data |-> data]
          /\ c2s' = Drop(c2s, m)
    /\ UNCHANGED <<recvRest, s_sock, c_sock>>

\* lines 9-11: sock.recv returns b"" (the peer has closed and nothing is
\* left to read); ConnectionError is raised.
RecvEof ==
    /\ Receiving
    /\ Len(arg.data) < arg.n
    /\ c2s = <<>>
    /\ c_sock = "closed"
    /\ res' = [fn |-> "recv_exact", outcome |-> "raised", error |-> "ConnectionError"]
    /\ UNCHANGED <<recvRest, s_sock, c_sock, c2s, arg>>

RecvNext ==
    \/ RecvConnect
    \/ PeerWrites
    \/ PeerShutdown
    \/ CallRecvExact
    \/ RecvChunk
    \/ RecvEof

RecvSpec == RecvInit /\ [][RecvNext]_vars

(***************************************************************************)
(* Claims about recv_exact (checked under RecvSpec).                       *)
(***************************************************************************)
\* The bytes from .. from + n - 1 of the peer's stream, in the order written.
StreamBytes(from, n) == [i \in 1..n |-> from + i - 1]

\* C22: however the stream is cut into chunks, recv_exact(n) returns exactly
\* the next n bytes of the stream in arrival order and leaves every later
\* byte unread; it never returns a short buffer: when the peer has closed
\* before n bytes arrived it raises ConnectionError, which is not a value a
\* decoder returns.
C22_RecvExactReturnsExactlyN ==
    /\ Receiving =>
          /\ Len(arg.data) < arg.n
          /\ arg.data = StreamBytes(arg.before + 1, Len(arg.data))
    /\ Outcome = "returned" =>
          /\ res.data = StreamBytes(arg.before + 1, arg.n)
          /\ c2s = StreamBytes(arg.before + arg.n + 1, Len(c2s))
    /\ Outcome = "raised" =>
          /\ c_sock = "closed"
          /\ Written - arg.before < arg.n
          /\ res # Invalid
          /\ "data" \notin DOMAIN res
    /\ (arg # NoArg /\ c_sock = "closed" /\ Written - arg.before < arg.n) =>
          Outcome # "returned"

\* A second call returned three bytes while a later byte stays unread.
C22_Witness ==
    /\ Outcome = "returned"
    /\ arg.before > 0
    /\ arg.n = 3
    /\ c2s # <<>>

\* The peer closed after two of three bytes and the call raised.
C22_WitnessRaised ==
    /\ Outcome = "raised"
    /\ arg.n = 3
    /\ Len(arg.data) = 2

(***************************************************************************)
(* ClientSpec: client/client_main.py against any peer behind an Offer: the *)
(* peer accepts, writes server payloads (valid or not), stays silent or    *)
(* closes; the user types anything at the prompt.  The server process of   *)
(* this repository stays in its accept loop.                               *)
(***************************************************************************)
\* The payloads the peer writes in one session at most.
MaxPeerPayloads == 5

\* What the user types at the rounds prompt: 'q', text that is no number,
\* or a number.
PromptInputs ==
    {[kind |-> "quit"], [kind |-> "text"]}
    \cup {[kind |-> "int", value |-> n] : n \in {-1, 0, 1, 2, 255, 256}}

\* Nine bytes a peer may write: card events, a final event, a payload whose
\* rank is 14, a payload with a wrong cookie byte.
PeerPayloads ==
    { pack_server_payload(RESULT_NOT_OVER, 10, 0),
      pack_server_payload(RESULT_WIN, 10, 0),
      CookieBytes \o <<MSG_TYPE_PAYLOAD, RESULT_NOT_OVER, 0, 14, 0>>,
      <<171, 205, 220, 187>> \o <<MSG_TYPE_PAYLOAD, RESULT_NOT_OVER, 0, 10, 0>> }

ClientInit == NoEngine /\ SessionIdle /\ NoCalls

\* main, lines 59-88 and 127-175: the rounds prompt.  'q' returns from
\* main; text that is no number, a number below 1 or above 255 is asked
\* again; any other number starts a session.
CliPrompt ==
    /\ cli_pc = "idle"
    /\ \E input \in PromptInputs :
          IF input.kind = "quit"
          THEN /\ cli_pc' = "exited"
               /\ UNCHANGED <<engineVars, serverVars, linkVars, log, cli_rounds,
                              cli_round_i, cli_j, cli_player_turn, cli_last_decision,
                              player_ranks, dealer_up_rank, counts, cli_log, callVars>>
          ELSE IF input.kind = "text" \/ input.value <= 0 \/ input.value > 255
          THEN UNCHANGED vars
          ELSE CliConnectWith(input.value)

\* The peer accepts the connection.
ServerPeerAccepts ==
    /\ s_sock = "none"
    /\ c_sock = "open"
    /\ s_sock' = "open"
    /\ UNCHANGED <<engineVars, srv_pc, srv_req, srv_rounds, round_i, srv_player_turn,
                   srv_last_decision, c_sock, c2s, s2c, log, clientVars, callVars>>

\* The peer writes nine bytes.
ServerPeerSends ==
    /\ s_sock = "open"
    /\ cli_pc \in {"initial", "turn", "recv"}
    /\ Len(cli_log) + Len(s2c) \div SERVER_PAYLOAD_MESSAGE_BYTES < MaxPeerPayloads
    /\ \E m \in PeerPayloads : s2c' = s2c \o m
    /\ UNCHANGED <<engineVars, serverVars, s_sock, c_sock, c2s, log, clientVars, callVars>>

\* The peer closes its end.
ServerPeerCloses ==
    /\ s_sock = "open"
    /\ s_sock' = "closed"
    /\ UNCHANGED <<engineVars, srv_pc, srv_req, srv_rounds, round_i, srv_player_turn,
                   srv_last_decision, c_sock, c2s, s2c, log, clientVars, callVars>>

\* sock.recv raises socket.timeout inside recv_exact at line 180 or 249 (no
\* byte for 15 seconds, line 154); the handler of lines 304-306 abandons the
\* session.
CliTimeout ==
    /\ cli_pc \in {"initial", "recv"}
    /\ ~CanRecv(s2c, SERVER_PAYLOAD_MESSAGE_BYTES)
    /\ s_sock # "closed"
    /\ CliAbandon
    /\ UNCHANGED <<engineVars, serverVars, linkVars, log, callVars>>

\* sendall raises at line 246 (the peer has closed); the handler of lines
\* 308-310 abandons the session.
CliSendFails ==
    /\ cli_pc = "turn"
    /\ s_sock = "closed"
    /\ CliAbandon
    /\ UNCHANGED <<engineVars, serverVars, linkVars, log, callVars>>

ClientNext ==
    \/ CliPrompt
    \/ ServerPeerAccepts
    \/ ServerPeerSends
    \/ ServerPeerCloses
    \/ CliRecvInitial
    \/ CliDecide
    \/ CliRecvPayload
    \/ CliRecvFails
    \/ CliTimeout
    \/ CliSendFails

ClientSpec == ClientInit /\ [][ClientNext]_vars

(***************************************************************************)
(* Claims about the client alone (checked under ClientSpec).               *)
(***************************************************************************)
CliInSession == cli_pc \in {"initial", "turn", "recv"}

\* The client is blocked in recv_exact and what has arrived is no valid
\* payload: nothing whole has arrived (the peer is silent or has closed),
\* or the nine bytes at the head do not decode.
CliCannotProceed ==
    /\ cli_pc \in {"initial", "recv"}
    /\ \/ ~CanRecv(s2c, SERVER_PAYLOAD_MESSAGE_BYTES)
       \/ ~unpack_server_payload(Take(s2c, SERVER_PAYLOAD_MESSAGE_BYTES)).ok

\* The Request at the head of what the client has sent on its connection.
SentRequest == unpack_request(Take(c2s, REQUEST_MESSAGE_BYTES))

\* C23: a client step taken when the payload awaited is invalid, the
\* connection is closed or nothing arrives puts the client at the top of
\* its outer loop; no step of a session ends the client process; every
\* Request the client has sent is valid with a round count in 1..255.
C23_ClientAbandonsAndSurvives ==
    /\ [](c2s # <<>> => SentRequest.ok /\ SentRequest.rounds \in 1..255)
    /\ [][CliInSession => cli_pc' # "exited"]_vars
    /\ [][(CliCannotProceed /\ clientVars' # clientVars) => cli_pc' = "idle"]_vars
    /\ [][(cli_pc = "turn" /\ s_sock = "closed" /\ c2s' = c2s /\ clientVars' # clientVars)
             => cli_pc' = "idle"]_vars

\* A session of 255 rounds was abandoned in its first round after two
\* payloads: the client is at its prompt, its socket still open.
C23_Witness ==
    /\ cli_pc = "idle"
    /\ cli_rounds = 255
    /\ SentRequest.rounds = 255
    /\ cli_round_i = 0
    /\ Len(cli_log) = 2
    /\ c_sock = "open"

(***************************************************************************)
(* Claims about the client's DeckCounter in a session (checked under       *)
(* SessionSpec).                                                           *)
(***************************************************************************)
\* The card a payload carries.
CardOf(msg) ==
    LET srv == unpack_server_payload(msg) IN Card(srv.rank, srv.suit)

\* The payloads the client has taken in round r, in order; the client calls
\* remove_seen once for each of them.
CliRoundLog(r) == SelectSeq(cli_log, LAMBDA e : e.round = r)

\* The cards shown to the client in round r.
CardsShown(r) == {CardOf(e.msg) : e \in Range(CliRoundLog(r))}

\* C24: in every round the number of remove_seen calls the client has made
\* equals the number of distinct dealt cards shown to it, so that no dealt
\* card lowers a rank's count twice.
C24_OneDecrementPerShownCard ==
    \A r \in 0..(MaxRounds - 1) :
        Len(CliRoundLog(r)) = Cardinality(CardsShown(r))

\* C25: whenever the client is about to choose a decision, its player_ranks
\* is the rank sequence of the server's player hand of that round and its
\* dealer_up_rank is the rank of the server's first dealer card; at every
\* point of a round player_ranks holds only ranks of the player's hand, in
\* order, never a dealer card.
C25_ClientMirrorsServerHand ==
    (PeerIsClient /\ srv_pc = "loop" /\ cli_round_i = round_i) =>
        /\ cli_pc = "turn" =>
              /\ player_ranks = RanksOf(player)
              /\ dealer_up_rank = dealer[1].rank
        /\ cli_pc \in {"turn", "recv"} =>
              /\ IsPrefix(player_ranks, RanksOf(player))
              /\ Len(player_ranks) >= 2

\* In the second round the client chooses a decision with three cards in
\* hand, the third taken after a hit.
C25_Witness ==
    /\ PeerIsClient /\ srv_pc = "loop" /\ cli_round_i = round_i
    /\ cli_pc = "turn"
    /\ round_i = 1
    /\ Len(player_ranks) = 3
    /\ cli_last_decision = "Hittt"

(***************************************************************************)
(* LiveSessionSpec: a session without transport failure and with a client  *)
(* that keeps answering.  The server process runs its loops and the client *)
(* process reads what arrives and sends its decisions, so each is weakly   *)
(* fair: a step of the process that stays possible is taken.               *)
(***************************************************************************)
\* A step of the server process.
SrvStep ==
    \/ SrvAccept
    \/ SrvReadRequest
    \/ SrvStartRound
    \/ SrvRecvDecision
    \/ SrvDealerStep
    \/ SrvClose

\* A step of the client process within a session.
CliStep ==
    \/ CliRecvInitial
    \/ CliDecide
    \/ CliRecvPayload

LiveSessionNext ==
    \/ SrvAccept
    \/ SrvReadRequest
    \/ SrvStartRound
    \/ SrvRecvDecision
    \/ SrvDealerStep
    \/ SrvClose
    \/ CliConnect
    \/ CliRecvInitial
    \/ CliDecide
    \/ CliRecvPayload

LiveSessionSpec ==
    /\ SessionInit
    /\ [][LiveSessionNext]_vars
    /\ WF_vars(SrvStep)
    /\ WF_vars(CliStep)

(***************************************************************************)
(* Claims about termination (checked under LiveSessionSpec).               *)
(***************************************************************************)
\* The final payloads the server has sent in the session.
AllFinals == {i \in 1..Len(log) : IsFinal(log[i])}

\* C26: every round reaches OVER: while the player is to act the hand holds
\* at most 21 and so at most 21 cards, while the dealer is to act its hand
\* without the last card holds less than 17, and a round that is dealt is
\* over exactly when its final payload has been sent; a session of R rounds
\* eventually has sent R final payloads, one per round, its last round is
\* over and it ends.
C26_RoundsAndSessionsTerminate ==
    /\ [](phase = "PLAYER" => Total(player) <= 21 /\ Len(player) <= 21)
    /\ [](phase = "DEALER" =>
             /\ Total(SubSeq(dealer, 1, Len(dealer) - 1)) < 17
             /\ Len(dealer) <= 17)
    /\ [](srv_pc \in {"deal", "loop", "closing"} =>
             /\ Cardinality(AllFinals) = round_i
             /\ (phase = "OVER") = (round_i > 0 /\ srv_pc # "loop"))
    /\ (srv_pc = "deal" /\ round_i = 0)
          ~> (/\ srv_pc = "closing"
              /\ phase = "OVER"
              /\ round_i = srv_rounds
              /\ Cardinality(AllFinals) = srv_rounds
              /\ \A r \in 0..(srv_rounds - 1) : Cardinality(Finals(r)) = 1)

\* A session of MaxRounds rounds has ended; in its last round the player hit
\* and the dealer drew.
C26_Witness ==
    /\ srv_pc = "closing"
    /\ round_i = MaxRounds
    /\ Cardinality(AllFinals) = MaxRounds
    /\ phase = "OVER"
    /\ Len(player) > 2
    /\ Len(dealer) > 2

(***************************************************************************)
(* Claims about soft hands in the strategy (checked under StrategySpec).   *)
(***************************************************************************)
\* choose_decision was called; res.decision holds its result for every
\* dealer upcard.
CalledChooseDecision == res.fn = "choose_decision"

\* The decision depends on the dealer upcard.
UpcardMatters ==
    \E up1, up2 \in 0..NumRanks : res.decision[up1] # res.decision[up2]

C27_WitnessThreshold ==
    /\ CalledChooseDecision
    /\ UpcardMatters

(***************************************************************************)
(* Claims about a Request for 0 rounds (checked under SessionSpec).        *)
(***************************************************************************)
\* The Request the server read last is valid and asks for 0 rounds.
ZeroRoundsRequest == srv_req.ok /\ srv_req.rounds = 0

\* C28: a Request whose round count is 0 decodes as valid on the server;
\* the server then plays no round: it creates the session's deck, draws no
\* card from it, sends no payload, and closes the connection and returns to
\* its accept loop as after a completed session.
C28_ZeroRoundsPlaysNothing ==
    /\ [][(/\ srv_pc = "request"
           /\ Take(c2s, REQUEST_MESSAGE_BYTES) = pack_request(0, TeamNameUtf8)
           /\ srv_pc' \notin {"request", "stopped", "terminated"})
          => /\ srv_req'.ok /\ srv_req'.rounds = 0
             /\ srv_pc' = "closing"]_vars
    /\ [](ZeroRoundsRequest =>
             /\ srv_pc \notin {"deal", "loop"}
             /\ log = <<>> /\ s2c = <<>>
             /\ player = <<>> /\ dealer = <<>> /\ phase = "INIT"
             /\ drawn = {}
             /\ srv_pc = "closing" =>
                   /\ Len(cards) = DeckSize
                   /\ s_sock = "open"
                   /\ round_i = srv_rounds)
    /\ [][(ZeroRoundsRequest /\ srv_pc = "closing" /\ srv_pc' # "closing")
          => \/ srv_pc' = "accept" /\ s_sock' = "closed"
             \/ srv_pc' = "stopped"]_vars

\* The server has read a Request for 0 rounds, closed the connection and is
\* back in its accept loop; the peer's end is still open.
C28_Witness ==
    /\ ZeroRoundsRequest
    /\ srv_pc = "accept"
    /\ s_sock = "closed"
    /\ c_sock = "open"
    /\ cli_pc = "foreign"

=============================================================================
